---------------------------- MODULE Spec2Model ----------------------------
(***************************************************************************)
(* A model of rjvm: the class-file decoder (libjvm/src/classfile/mod.rs),  *)
(* the interpreter thread and its frame stack (libjvm/src/vm/thread.rs,    *)
(* stack.rs), the bootstrap class loader                                   *)
(* (libjvm/src/vm/classloader/bootstrap.rs) and the file systems of libvfs *)
(* (libvfs/src/mem.rs, basepath.rs, copy_on_write.rs).  Each has its own   *)
(* specification: Spec, SpecThread (SpecThreadFair with fairness),         *)
(* SpecLoader, SpecMem and SpecFile (the in-memory file system and its     *)
(* files), SpecBase and SpecCow.                                           *)
(*                                                                         *)
(* The decoder is a pure function of a byte stream: every parser of the    *)
(* source is an operator taking the stream and the cursor and returning a  *)
(* record [res, why, pos, val]:                                            *)
(*   res  "Ok", the name of a ClassFileParseError variant, or "Panic"      *)
(*        (the process aborts: assert_eq!, todo!(), panic!(), an index out *)
(*        of bounds, an arithmetic overflow in a checked build);           *)
(*   why  the kind of abort when res = "Panic", "" otherwise;              *)
(*   pos  the number of bytes consumed from the stream so far;             *)
(*   val  the decoded value when res = "Ok".                               *)
(* u8 and u16 values are naturals; a u32 is the record [hi, lo] of its two *)
(* 16-bit halves, so that all 2^32 values are represented exactly.         *)
(***************************************************************************)
EXTENDS Integers, Sequences, FiniteSets, TLC

VARIABLES
    source,           \* the byte stream handed to the decoder
    cp,               \* the ConstantPool handed to AttributeInfo::parse
    overflow_checks,  \* build profile: TRUE = arithmetic overflow panics
    called,           \* which entry point has been applied, "none" before
    result,           \* what the call returned
    pc,               \* Thread.pc
    stack,            \* Thread.stack.frames, the top frame last
    before,           \* the frames when the operation applied last began
    method_code,      \* the code array of the method the thread is to run
    at,               \* where the thread is: "idle", or "execute" (in the loop)
    fault,            \* "none", or the panic that aborted the thread
    last_op,          \* the operation applied last, with its argument
    ret,              \* <<f>> for the frame f pop_frame returned last, <<>> before
    evaluated,        \* how many instructions Thread::evaluate was given
    loader_fs,        \* BootstrapClassLoader.fs: the bytes at dir/name.class
    class_path,       \* BootstrapClassLoader.class_path.items
    loader,           \* the loader's loaded_classes and its calls so far
    vfs               \* a file system of libvfs, its open file and its calls

decoder_vars == <<source, cp, overflow_checks, called, result>>

thread_vars ==
    <<pc, stack, before, method_code, at, fault, last_op, ret, evaluated>>

loader_vars == <<loader_fs, class_path, loader>>

vfs_vars == <<vfs>>

vars == <<decoder_vars, thread_vars, loader_vars, vfs_vars>>

\* no file system has been made
NoVfs == vfs = <<>>

\* no class loader has been created
NoLoader ==
    /\ loader_fs = <<>>
    /\ class_path = <<>>
    /\ loader = <<>>

\* no thread has been created: the decoder is driven on its own
NoThread ==
    /\ pc = 0
    /\ stack = <<>>
    /\ before = <<>>
    /\ method_code = <<>>
    /\ at = "idle"
    /\ fault = "none"
    /\ last_op = [name |-> "none", arg |-> 0]
    /\ ret = <<>>
    /\ evaluated = 0

(***************************************************************************)
(* Bounds of the input space.                                              *)
(***************************************************************************)
\* largest attribute_length of a crafted unknown attribute
MaxSkipLen == 3
\* largest element count of the lists in crafted attributes
MaxCount == 2

(***************************************************************************)
(* Results.                                                                *)
(***************************************************************************)
Ok(pos, val) == [res |-> "Ok", why |-> "", pos |-> pos, val |-> val]

Err(e, pos) == [res |-> e, why |-> "", pos |-> pos, val |-> <<>>]

Panic(why, pos) == [res |-> "Panic", why |-> why, pos |-> pos, val |-> <<>>]

\* the ? operator: an error or abort of r is returned at once, otherwise
\* the rest K of the parser runs on r
Bind(r, K(_)) == IF r.res # "Ok" THEN r ELSE K(r)

ClassFileParseError ==
    { "InvalidTypePathKind", "InvalidTypeAnnotationTargetType",
      "InvalidElementValueTag", "InvalidAttributeNameIndex",
      "InvalidMagicValue", "InvalidConstantPoolInfoTag",
      "InvalidVerificationTypeTag", "InvalidReferenceKind", "UnexpectedEOF" }

(***************************************************************************)
(* Fixed-width integers.                                                   *)
(***************************************************************************)
U32(n) == [hi |-> n \div 65536, lo |-> n % 65536]

\* u32::from_be_bytes
u32_from_be_bytes(b) == [hi |-> b[1] * 256 + b[2], lo |-> b[3] * 256 + b[4]]

\* the two bytes taken in little-endian order
u16_from_le_bytes(b) == b[2] * 256 + b[1]

\* u16::from_be_bytes
u16_from_be_bytes(b) == b[1] * 256 + b[2]

\* (x as usize) <= n for a u32 x and a stream length n < 2^31
u32_fits(x, n) == x.hi < 32768 /\ x.hi * 65536 + x.lo <= n

\* x as usize, for a u32 that fits the stream
u32_as_usize(x) == x.hi * 65536 + x.lo

RECURSIVE BitAnd(_, _)
BitAnd(a, b) ==
    IF a = 0 \/ b = 0 THEN 0
    ELSE (a % 2) * (b % 2) + 2 * BitAnd(a \div 2, b \div 2)

(***************************************************************************)
(* The byte source: "read exactly N bytes or fail".                        *)
(***************************************************************************)
\* read_bytes!: read_exact, a short read becomes UnexpectedEOF
read_bytes(src, pos, count) ==
    IF pos + count <= Len(src)
    THEN Ok(pos + count, SubSeq(src, pos + 1, pos + count))
    ELSE Err("UnexpectedEOF", Len(src))

\* the byte read without taking it off the stream
read_u8_peek(src, pos) ==
    Bind(read_bytes(src, pos, 1), LAMBDA r: Ok(pos, r.val[1]))

read_u8(src, pos) ==
    Bind(read_bytes(src, pos, 1), LAMBDA r: Ok(r.pos, r.val[1]))

read_u16(src, pos) ==
    Bind(read_bytes(src, pos, 2),
         LAMBDA r: Ok(r.pos, u16_from_be_bytes(r.val)))

read_u32(src, pos) ==
    Bind(read_bytes(src, pos, 4),
         LAMBDA r: Ok(r.pos, u32_from_be_bytes(r.val)))

\* vec![0_u8; len as usize] followed by read_exact, for a u32 len
read_vec_u32(src, pos, len) ==
    IF u32_fits(len, Len(src) - pos)
    THEN read_bytes(src, pos, u32_as_usize(len))
    ELSE Err("UnexpectedEOF", Len(src))

RECURSIVE read_u16s(_, _, _)
\* n consecutive read_u16!, the values in reading order
read_u16s(src, pos, n) ==
    IF n = 0 THEN Ok(pos, <<>>)
    ELSE Bind(read_u16(src, pos), LAMBDA r:
         Bind(read_u16s(src, r.pos, n - 1), LAMBDA rest:
         Ok(rest.pos, <<r.val>> \o rest.val)))

(***************************************************************************)
(* Access-flag bitsets: from_bits_truncate keeps the defined bits.         *)
(***************************************************************************)
ModuleFlags_all == 32 + 4096 + 32768

RequiresFlags_all == 32 + 64 + 4096 + 32768

ExportsFlags_all == 4096 + 32768

OpensFlags_all == 4096 + 32768

ClassAccessFlags_all == 1 + 16 + 32 + 512 + 1024 + 4096 + 8192 + 16384 + 32768

FieldAccessFlags_all == 1 + 2 + 4 + 8 + 16 + 64 + 128 + 4096 + 16384

MethodAccessFlags_all ==
    1 + 2 + 4 + 8 + 16 + 32 + 64 + 128 + 256 + 1024 + 2048 + 4096

InnerClassAccessFlags_all ==
    1 + 2 + 4 + 8 + 16 + 512 + 1024 + 4096 + 8192 + 16384

MethodParameterAccessFlags_all == 16 + 4096 + 32768

from_bits_truncate(all, bits) == BitAnd(all, bits)

(***************************************************************************)
(* The constant pool.                                                      *)
(***************************************************************************)
\* 0xCAFEBABE
MAGIC == [hi |-> 51966, lo |-> 47806]

\* a comparison of the upper half of the magic only
MagicMatches_upper_half(magic) == magic.hi = MAGIC.hi

\* the magic check of ClassFile::parse
MagicMatches(magic) == magic = MAGIC

\* the discriminants of enum ConstantPoolInfoTag
ConstantPoolInfoTag == {1} \cup (3..12) \cup (15..20)

\* ConstantPoolInfoTag::try_from(tag_byte).is_ok()
ConstantPoolInfoTag_try_from_ok(tag_byte) == tag_byte \in ConstantPoolInfoTag

\* the discriminants of enum ReferenceKind
ReferenceKind == 1..9

\* the discriminants of enum TypePathKind
TypePathKind == 0..3

parse_utf8(src, pos) ==
    Bind(read_u16(src, pos), LAMBDA l:
    Bind(read_bytes(src, l.pos, l.val), LAMBDA b:
    Ok(b.pos, [kind |-> "Utf8Info", length |-> l.val, bytes |-> b.val])))

\* parse_integer, parse_float: one u32
parse_u32_info(kind, src, pos) ==
    Bind(read_u32(src, pos), LAMBDA r:
    Ok(r.pos, [kind |-> kind, bytes |-> r.val]))

\* parse_long, parse_double: two u32, eight bytes, one entry
parse_u64_info(kind, src, pos) ==
    Bind(read_u32(src, pos), LAMBDA h:
    Bind(read_u32(src, h.pos), LAMBDA l:
    Ok(l.pos, [kind |-> kind, high_bytes |-> h.val, low_bytes |-> l.val])))

\* parse_class, parse_module, parse_package: one u16 name_index
parse_name_index_info(kind, src, pos) ==
    Bind(read_u16(src, pos), LAMBDA r:
    Ok(r.pos, [kind |-> kind, name_index |-> r.val]))

parse_string(src, pos) ==
    Bind(read_u16(src, pos), LAMBDA r:
    Ok(r.pos, [kind |-> "StringInfo", string_index |-> r.val]))

\* parse_fieldref, parse_methodref, parse_interface_methodref
parse_ref_info(kind, src, pos) ==
    Bind(read_u16s(src, pos, 2), LAMBDA r:
    Ok(r.pos, [kind |-> kind, class_index |-> r.val[1],
               name_and_type_index |-> r.val[2]]))

parse_name_and_type(src, pos) ==
    Bind(read_u16s(src, pos, 2), LAMBDA r:
    Ok(r.pos, [kind |-> "NameAndTypeInfo", name_index |-> r.val[1],
               descriptor_index |-> r.val[2]]))

parse_method_handle(src, pos) ==
    Bind(read_u8(src, pos), LAMBDA k:
    IF k.val \notin ReferenceKind THEN Err("InvalidReferenceKind", k.pos)
    ELSE Bind(read_u16(src, k.pos), LAMBDA r:
         Ok(r.pos, [kind |-> "MethodHandleInfo", reference_kind |-> k.val,
                    reference_index |-> r.val])))

parse_method_type(src, pos) ==
    Bind(read_u16(src, pos), LAMBDA r:
    Ok(r.pos, [kind |-> "MethodTypeInfo", descriptor_index |-> r.val]))

\* parse_dynamic, parse_invoke_dynamic
parse_dynamic_info(kind, src, pos) ==
    Bind(read_u16s(src, pos, 2), LAMBDA r:
    Ok(r.pos, [kind |-> kind, bootstrap_method_attr_index |-> r.val[1],
               name_and_type_index |-> r.val[2]]))

\* the match on the tag in ConstantPoolInfo::parse
ConstantPoolInfo_match(tag, src, pos) ==
    CASE tag = 1 -> parse_utf8(src, pos)
      [] tag = 3 -> parse_u32_info("IntegerInfo", src, pos)
      [] tag = 4 -> parse_u32_info("FloatInfo", src, pos)
      [] tag = 5 -> parse_u64_info("LongInfo", src, pos)
      [] tag = 6 -> parse_u64_info("DoubleInfo", src, pos)
      [] tag = 7 -> parse_name_index_info("ClassInfo", src, pos)
      [] tag = 8 -> parse_string(src, pos)
      [] tag = 9 -> parse_ref_info("FieldrefInfo", src, pos)
      [] tag = 10 -> parse_ref_info("MethodrefInfo", src, pos)
      [] tag = 11 -> parse_ref_info("InterfaceMethodrefInfo", src, pos)
      [] tag = 12 -> parse_name_and_type(src, pos)
      [] tag = 15 -> parse_method_handle(src, pos)
      [] tag = 16 -> parse_method_type(src, pos)
      [] tag = 17 -> parse_dynamic_info("DynamicInfo", src, pos)
      [] tag = 18 -> parse_dynamic_info("InvokeDynamicInfo", src, pos)
      [] tag = 19 -> parse_name_index_info("ModuleInfo", src, pos)
      [] tag = 20 -> parse_name_index_info("PackageInfo", src, pos)

\* a decoder that steps over an entry of unknown tag instead of failing
ConstantPoolInfo_parse_lenient(src, pos) ==
    Bind(read_u8(src, pos), LAMBDA t:
    IF ~ConstantPoolInfoTag_try_from_ok(t.val)
    THEN Ok(t.pos, [kind |-> "Unknown"])
    ELSE ConstantPoolInfo_match(t.val, src, t.pos))

ConstantPoolInfo_parse(src, pos) ==
    Bind(read_u8(src, pos), LAMBDA t:
    IF ~ConstantPoolInfoTag_try_from_ok(t.val)
    THEN Err("InvalidConstantPoolInfoTag", t.pos)
    ELSE ConstantPoolInfo_match(t.val, src, t.pos))

(***************************************************************************)
(* Count-prefixed lists.  Every list of the format is decoded by the same  *)
(* loop, for _ in 0..count { v.push(X::parse(source)?) }: parse_elems is   *)
(* that loop and parse_elem the call X::parse it makes, X given by name.   *)
(***************************************************************************)
RECURSIVE parse_elems(_, _, _, _, _, _)

ExceptionTableEntry_parse(src, pos) ==
    Bind(read_u16s(src, pos, 4), LAMBDA r:
    Ok(r.pos, [start_pc |-> r.val[1], end_pc |-> r.val[2],
               handler_pc |-> r.val[3], catch_type |-> r.val[4]]))

\* the match on the tag in VerificationTypeInfo::parse
VerificationTypeInfo_match(tag, src, pos) ==
    CASE tag \in 0..6 -> Ok(pos, [tag |-> tag])
      [] tag = 7 -> Bind(read_u16(src, pos), LAMBDA r:
                    Ok(r.pos, [tag |-> tag, cpool_index |-> r.val]))
      [] tag = 8 -> Bind(read_u16(src, pos), LAMBDA r:
                    Ok(r.pos, [tag |-> tag, offset |-> r.val]))
      [] OTHER -> Err("InvalidVerificationTypeTag", pos)

VerificationTypeInfo_parse(src, pos) ==
    Bind(read_u8(src, pos), LAMBDA t:
    VerificationTypeInfo_match(t.val, src, t.pos))

parse_same_locals_1_item_stack(src, pos, frame_type) ==
    Bind(VerificationTypeInfo_parse(src, pos), LAMBDA v:
    Ok(v.pos, [kind |-> "SameLocals1StackItem", frame_type |-> frame_type,
               stack |-> v.val]))

parse_same_locals_1_stack_item_frame_extended(src, pos, frame_type) ==
    Bind(read_u16(src, pos), LAMBDA d:
    Bind(VerificationTypeInfo_parse(src, d.pos), LAMBDA v:
    Ok(v.pos, [kind |-> "SameLocals1StackItemExtended",
               frame_type |-> frame_type, offset_delta |-> d.val,
               stack |-> v.val])))

\* parse_chop_frame, parse_same_frame_extended
parse_offset_delta_frame(kind, src, pos, frame_type) ==
    Bind(read_u16(src, pos), LAMBDA d:
    Ok(d.pos, [kind |-> kind, frame_type |-> frame_type,
               offset_delta |-> d.val]))

parse_append_frame(src, pos, frame_type) ==
    Bind(read_u16(src, pos), LAMBDA d:
    Bind(parse_elems("VerificationTypeInfo", <<>>, FALSE, src, d.pos,
                     frame_type - 251), LAMBDA l:
    Ok(l.pos, [kind |-> "Append", frame_type |-> frame_type,
               offset_delta |-> d.val, locals |-> l.val])))

parse_full_frame(src, pos, frame_type) ==
    Bind(read_u16s(src, pos, 2), LAMBDA d:
    Bind(parse_elems("VerificationTypeInfo", <<>>, FALSE, src, d.pos,
                     d.val[2]), LAMBDA l:
    Bind(read_u16(src, l.pos), LAMBDA n:
    Bind(parse_elems("VerificationTypeInfo", <<>>, FALSE, src, n.pos,
                     n.val), LAMBDA k:
    Ok(k.pos, [kind |-> "Full", frame_type |-> frame_type,
               offset_delta |-> d.val[1], locals |-> l.val,
               stack |-> k.val])))))

\* the arm of StackMapFrame::parse's match that a frame_type no range covers
\* falls into: _ => panic!()
StackMapFrame_other(pos, frame_type) == Panic("panic!()", pos)

\* the match on frame_type in StackMapFrame::parse
StackMapFrame_match(frame_type, src, pos) ==
    CASE frame_type \in 0..63 ->
             Ok(pos, [kind |-> "Same", frame_type |-> frame_type])
      [] frame_type \in 64..127 ->
             parse_same_locals_1_item_stack(src, pos, frame_type)
      [] frame_type = 247 ->
             parse_same_locals_1_stack_item_frame_extended(src, pos,
                                                           frame_type)
      [] frame_type \in 248..250 ->
             parse_offset_delta_frame("Chop", src, pos, frame_type)
      [] frame_type = 251 ->
             parse_offset_delta_frame("SameExtended", src, pos, frame_type)
      [] frame_type \in 252..254 -> parse_append_frame(src, pos, frame_type)
      [] frame_type = 255 -> parse_full_frame(src, pos, frame_type)
      [] OTHER -> StackMapFrame_other(pos, frame_type)

StackMapFrame_parse(src, pos) ==
    Bind(read_u8(src, pos), LAMBDA t: StackMapFrame_match(t.val, src, t.pos))

InnerClass_parse(src, pos) ==
    Bind(read_u16s(src, pos, 4), LAMBDA r:
    Ok(r.pos, [inner_class_info_index |-> r.val[1],
               outer_class_info_index |-> r.val[2],
               inner_name_index |-> r.val[3],
               inner_class_access_flags |->
                   from_bits_truncate(InnerClassAccessFlags_all, r.val[4])]))

LineNumberTableEntry_parse(src, pos) ==
    Bind(read_u16s(src, pos, 2), LAMBDA r:
    Ok(r.pos, [start_pc |-> r.val[1], line_number |-> r.val[2]]))

LocalVariableTableEntry_parse(src, pos) ==
    Bind(read_u16s(src, pos, 5), LAMBDA r:
    Ok(r.pos, [start_pc |-> r.val[1], length |-> r.val[2],
               name_index |-> r.val[3], descriptor_index |-> r.val[4],
               index |-> r.val[5]]))

LocalVariableTypeTableEntry_parse(src, pos) ==
    Bind(read_u16s(src, pos, 5), LAMBDA r:
    Ok(r.pos, [start_pc |-> r.val[1], length |-> r.val[2],
               name_index |-> r.val[3], signature_index |-> r.val[4],
               index |-> r.val[5]]))

LocalVarTargetTableEntry_parse(src, pos) ==
    Bind(read_u16s(src, pos, 3), LAMBDA r:
    Ok(r.pos, [start_pc |-> r.val[1], length |-> r.val[2],
               index |-> r.val[3]]))

Path_parse(src, pos) ==
    Bind(read_u8(src, pos), LAMBDA k:
    IF k.val \notin TypePathKind THEN Err("InvalidTypePathKind", k.pos)
    ELSE Bind(read_u8(src, k.pos), LAMBDA a:
         Ok(a.pos, [type_path_kind |-> k.val,
                    type_path_argument_index |-> a.val])))

TypePath_parse(src, pos) ==
    Bind(read_u8(src, pos), LAMBDA n:
    Bind(parse_elems("Path", <<>>, FALSE, src, n.pos, n.val), LAMBDA l:
    Ok(l.pos, [path |-> l.val])))

MethodParameter_parse(src, pos) ==
    Bind(read_u16s(src, pos, 2), LAMBDA r:
    Ok(r.pos, [name_index |-> r.val[1],
               access_flags |->
                   from_bits_truncate(MethodParameterAccessFlags_all,
                                      r.val[2])]))

BootstrapMethod_parse(src, pos) ==
    Bind(read_u16s(src, pos, 2), LAMBDA r:
    Bind(parse_elems("u16", <<>>, FALSE, src, r.pos, r.val[2]), LAMBDA l:
    Ok(l.pos, [bootstrap_method_ref |-> r.val[1],
               bootstrap_arguments |-> l.val])))

ModuleRequires_parse(src, pos) ==
    Bind(read_u16s(src, pos, 3), LAMBDA r:
    Ok(r.pos, [requires_index |-> r.val[1],
               requires_flags |->
                   from_bits_truncate(RequiresFlags_all, r.val[2]),
               requires_version_index |-> r.val[3]]))

ModuleExports_parse(src, pos) ==
    Bind(read_u16s(src, pos, 3), LAMBDA r:
    Bind(parse_elems("u16", <<>>, FALSE, src, r.pos, r.val[3]), LAMBDA l:
    Ok(l.pos, [exports_index |-> r.val[1],
               exports_flags |->
                   from_bits_truncate(ExportsFlags_all, r.val[2]),
               exports_to_index |-> l.val])))

ModuleOpens_parse(src, pos) ==
    Bind(read_u16s(src, pos, 3), LAMBDA r:
    Bind(parse_elems("u16", <<>>, FALSE, src, r.pos, r.val[3]), LAMBDA l:
    Ok(l.pos, [opens_index |-> r.val[1],
               opens_flags |-> from_bits_truncate(OpensFlags_all, r.val[2]),
               opens_to_index |-> l.val])))

ModuleProvides_parse(src, pos) ==
    Bind(read_u16s(src, pos, 2), LAMBDA r:
    Bind(parse_elems("u16", <<>>, FALSE, src, r.pos, r.val[2]), LAMBDA l:
    Ok(l.pos, [provides_index |-> r.val[1],
               provides_with_index |-> l.val])))

(***************************************************************************)
(* Annotations, element values and type annotations.                       *)
(***************************************************************************)
Annotation_parse(src, pos) ==
    Bind(read_u16s(src, pos, 2), LAMBDA r:
    Bind(parse_elems("ElementValuePair", <<>>, FALSE, src, r.pos, r.val[2]),
         LAMBDA l:
    Ok(l.pos, [type_index |-> r.val[1], element_value_pairs |-> l.val])))

\* the ASCII codes of 'B' 'C' 'D' 'F' 'I' 'J' 'S' 'Z' 's'
ConstValueTags == {66, 67, 68, 70, 73, 74, 83, 90, 115}

\* the match on the tag in ElementValue::parse
ElementValue_match(tag, src, pos) ==
    CASE tag \in ConstValueTags ->
             Bind(read_u16(src, pos), LAMBDA r:
             Ok(r.pos, [kind |-> "ConstValueIndex", index |-> r.val]))
      [] tag = 101 ->
             Bind(read_u16s(src, pos, 2), LAMBDA r:
             Ok(r.pos, [kind |-> "EnumConstValue",
                        type_name_index |-> r.val[1],
                        const_name_index |-> r.val[2]]))
      [] tag = 99 ->
             Bind(read_u16(src, pos), LAMBDA r:
             Ok(r.pos, [kind |-> "ClassInfoIndex", index |-> r.val]))
      [] tag = 64 ->
             Bind(Annotation_parse(src, pos), LAMBDA a:
             Ok(a.pos, [kind |-> "AnnotationValue", annotation |-> a.val]))
      [] tag = 91 ->
             Bind(read_u16(src, pos), LAMBDA n:
             Bind(parse_elems("ElementValue", <<>>, FALSE, src, n.pos, n.val),
                  LAMBDA l:
             Ok(l.pos, [kind |-> "ArrayValue", values |-> l.val])))
      [] OTHER -> Err("InvalidElementValueTag", pos)

ElementValue_parse(src, pos) ==
    Bind(read_u8(src, pos), LAMBDA t: ElementValue_match(t.val, src, t.pos))

ElementValuePair_parse(src, pos) ==
    Bind(read_u16(src, pos), LAMBDA n:
    Bind(ElementValue_parse(src, n.pos), LAMBDA v:
    Ok(v.pos, [element_name_index |-> n.val, value |-> v.val])))

\* one element of parameter_annotations: num_annotations and that many
\* annotations
ParameterAnnotations_parse(src, pos) ==
    Bind(read_u16(src, pos), LAMBDA n:
    parse_elems("Annotation", <<>>, FALSE, src, n.pos, n.val))

\* the match on target_type in TypeAnnotation::parse
TargetInfo_parse(src, pos, target_type) ==
    CASE target_type \in {0, 1} ->
             Bind(read_u8(src, pos), LAMBDA r:
             Ok(r.pos, [kind |-> "TypeParameter",
                        type_parameter_index |-> r.val]))
      [] target_type = 16 ->
             Bind(read_u16(src, pos), LAMBDA r:
             Ok(r.pos, [kind |-> "Supertype", supertype_index |-> r.val]))
      [] target_type \in {17, 18} ->
             Bind(read_bytes(src, pos, 2), LAMBDA r:
             Ok(r.pos, [kind |-> "TypeParameterBound",
                        type_parameter_index |-> r.val[1],
                        bound_index |-> r.val[2]]))
      [] target_type \in 19..21 -> Ok(pos, [kind |-> "Empty"])
      [] target_type = 22 ->
             Bind(read_u8(src, pos), LAMBDA r:
             Ok(r.pos, [kind |-> "FormalParameter",
                        formal_parameter_index |-> r.val]))
      [] target_type = 23 ->
             Bind(read_u16(src, pos), LAMBDA r:
             Ok(r.pos, [kind |-> "Throws", throws_type_index |-> r.val]))
      [] target_type \in {64, 65} ->
             Bind(read_u16(src, pos), LAMBDA n:
             Bind(parse_elems("LocalVarTargetTableEntry", <<>>, FALSE, src,
                              n.pos, n.val), LAMBDA l:
             Ok(l.pos, [kind |-> "Localvar", table |-> l.val])))
      [] target_type = 66 ->
             Bind(read_u16(src, pos), LAMBDA r:
             Ok(r.pos, [kind |-> "Catch", exception_table_index |-> r.val]))
      [] target_type \in 67..70 ->
             Bind(read_u16(src, pos), LAMBDA r:
             Ok(r.pos, [kind |-> "Offset", offset |-> r.val]))
      [] target_type \in 71..75 ->
             Bind(read_u16(src, pos), LAMBDA r:
             Bind(read_u8(src, r.pos), LAMBDA a:
             Ok(a.pos, [kind |-> "TypeArgument", offset |-> r.val,
                        type_argument_index |-> a.val])))
      [] OTHER -> Err("InvalidTypeAnnotationTargetType", pos)

TypeAnnotation_parse(src, pos) ==
    Bind(read_u8(src, pos), LAMBDA t:
    Bind(TargetInfo_parse(src, t.pos, t.val), LAMBDA i:
    Bind(TypePath_parse(src, i.pos), LAMBDA tp:
    Bind(read_u16s(src, tp.pos, 2), LAMBDA r:
    Bind(parse_elems("ElementValuePair", <<>>, FALSE, src, r.pos, r.val[2]),
         LAMBDA l:
    Ok(l.pos, [target_path |-> tp.val, target_info |-> i.val,
               type_index |-> r.val[1],
               element_value_pairs |-> l.val]))))))

(***************************************************************************)
(* The fixed attribute name table: the byte-string patterns b"..." of      *)
(* AttributeInfo::parse, as ASCII codes.                                   *)
(***************************************************************************)
\* field X is b"X"
Names ==
    [
      \* b"ConstantValue"
      ConstantValue |->
        <<67, 111, 110, 115, 116, 97, 110, 116, 86, 97, 108, 117, 101>>,
      \* b"Code"
      Code |->
        <<67, 111, 100, 101>>,
      \* b"StackMapTable"
      StackMapTable |->
        <<83, 116, 97, 99, 107, 77, 97, 112, 84, 97, 98, 108, 101>>,
      \* b"Exceptions"
      Exceptions |->
        <<69, 120, 99, 101, 112, 116, 105, 111, 110, 115>>,
      \* b"InnerClasses"
      InnerClasses |->
        <<73, 110, 110, 101, 114, 67, 108, 97, 115, 115, 101, 115>>,
      \* b"EnclosingMethod"
      EnclosingMethod |->
        <<69, 110, 99, 108, 111, 115, 105, 110, 103, 77, 101, 116, 104, 111,
         100>>,
      \* b"Synthetic"
      Synthetic |->
        <<83, 121, 110, 116, 104, 101, 116, 105, 99>>,
      \* b"Signature"
      Signature |->
        <<83, 105, 103, 110, 97, 116, 117, 114, 101>>,
      \* b"SourceFile"
      SourceFile |->
        <<83, 111, 117, 114, 99, 101, 70, 105, 108, 101>>,
      \* b"SourceDebugExtension"
      SourceDebugExtension |->
        <<83, 111, 117, 114, 99, 101, 68, 101, 98, 117, 103, 69, 120, 116,
         101, 110, 115, 105, 111, 110>>,
      \* b"LineNumberTable"
      LineNumberTable |->
        <<76, 105, 110, 101, 78, 117, 109, 98, 101, 114, 84, 97, 98, 108,
         101>>,
      \* b"LocalVariableTable"
      LocalVariableTable |->
        <<76, 111, 99, 97, 108, 86, 97, 114, 105, 97, 98, 108, 101, 84, 97,
         98, 108, 101>>,
      \* b"LocalVariableTypeTable"
      LocalVariableTypeTable |->
        <<76, 111, 99, 97, 108, 86, 97, 114, 105, 97, 98, 108, 101, 84, 121,
         112, 101, 84, 97, 98, 108, 101>>,
      \* b"Deprecated"
      Deprecated |->
        <<68, 101, 112, 114, 101, 99, 97, 116, 101, 100>>,
      \* b"RuntimeVisibleAnnotations"
      RuntimeVisibleAnnotations |->
        <<82, 117, 110, 116, 105, 109, 101, 86, 105, 115, 105, 98, 108, 101,
         65, 110, 110, 111, 116, 97, 116, 105, 111, 110, 115>>,
      \* b"RuntimeInvisibleAnnotations"
      RuntimeInvisibleAnnotations |->
        <<82, 117, 110, 116, 105, 109, 101, 73, 110, 118, 105, 115, 105, 98,
         108, 101, 65, 110, 110, 111, 116, 97, 116, 105, 111, 110, 115>>,
      \* b"RuntimeVisibleParameterAnnotations"
      RuntimeVisibleParameterAnnotations |->
        <<82, 117, 110, 116, 105, 109, 101, 86, 105, 115, 105, 98, 108, 101,
         80, 97, 114, 97, 109, 101, 116, 101, 114, 65, 110, 110, 111, 116,
         97, 116, 105, 111, 110, 115>>,
      \* b"RuntimeInvisibleParameterAnnotations"
      RuntimeInvisibleParameterAnnotations |->
        <<82, 117, 110, 116, 105, 109, 101, 73, 110, 118, 105, 115, 105, 98,
         108, 101, 80, 97, 114, 97, 109, 101, 116, 101, 114, 65, 110, 110,
         111, 116, 97, 116, 105, 111, 110, 115>>,
      \* b"RuntimeVisibleTypeAnnotations"
      RuntimeVisibleTypeAnnotations |->
        <<82, 117, 110, 116, 105, 109, 101, 86, 105, 115, 105, 98, 108, 101,
         84, 121, 112, 101, 65, 110, 110, 111, 116, 97, 116, 105, 111, 110,
         115>>,
      \* b"RuntimeInvisibleTypeAnnotations"
      RuntimeInvisibleTypeAnnotations |->
        <<82, 117, 110, 116, 105, 109, 101, 73, 110, 118, 105, 115, 105, 98,
         108, 101, 84, 121, 112, 101, 65, 110, 110, 111, 116, 97, 116, 105,
         111, 110, 115>>,
      \* b"AnnotationDefault"
      AnnotationDefault |->
        <<65, 110, 110, 111, 116, 97, 116, 105, 111, 110, 68, 101, 102, 97,
         117, 108, 116>>,
      \* b"BootstrapMethods"
      BootstrapMethods |->
        <<66, 111, 111, 116, 115, 116, 114, 97, 112, 77, 101, 116, 104, 111,
         100, 115>>,
      \* b"MethodParameters"
      MethodParameters |->
        <<77, 101, 116, 104, 111, 100, 80, 97, 114, 97, 109, 101, 116, 101,
         114, 115>>,
      \* b"Module"
      Module |->
        <<77, 111, 100, 117, 108, 101>>,
      \* b"ModulePackages"
      ModulePackages |->
        <<77, 111, 100, 117, 108, 101, 80, 97, 99, 107, 97, 103, 101, 115>>,
      \* b"ModuleMainClass"
      ModuleMainClass |->
        <<77, 111, 100, 117, 108, 101, 77, 97, 105, 110, 67, 108, 97, 115,
         115>>,
      \* b"NestHost"
      NestHost |->
        <<78, 101, 115, 116, 72, 111, 115, 116>>,
      \* b"NestMembers"
      NestMembers |->
        <<78, 101, 115, 116, 77, 101, 109, 98, 101, 114, 115>>,
      \* b"Record"
      Record |->
        <<82, 101, 99, 111, 114, 100>>,
      \* b"PermittedSubclasses"
      PermittedSubclasses |->
        <<80, 101, 114, 109, 105, 116, 116, 101, 100, 83, 117, 98, 99, 108,
         97, 115, 115, 101, 115>>
    ]

\* the patterns of the name match
AttributeNames == {Names[k] : k \in DOMAIN Names}

(***************************************************************************)
(* AttributeInfo::parse.                                                   *)
(***************************************************************************)
attr_header(kind, name_index, length) ==
    [kind |-> kind, attribute_name_index |-> name_index,
     attribute_length |-> length]

\* an attribute whose payload is one u16 (Signature, SourceFile, ...)
attr_u16(kind, field, src, pos, name_index, length) ==
    Bind(read_u16(src, pos), LAMBDA r:
    Ok(r.pos, attr_header(kind, name_index, length) @@ (field :> r.val)))

\* an attribute whose payload is a u16 count and that many elements
attr_list16(kind, field, elem, pool, oc, src, pos, name_index, length) ==
    Bind(read_u16(src, pos), LAMBDA n:
    Bind(parse_elems(elem, pool, oc, src, n.pos, n.val), LAMBDA l:
    Ok(l.pos, attr_header(kind, name_index, length) @@ (field :> l.val))))

\* an attribute whose payload is a u8 count and that many elements
attr_list8(kind, field, elem, src, pos, name_index, length) ==
    Bind(read_u8(src, pos), LAMBDA n:
    Bind(parse_elems(elem, <<>>, FALSE, src, n.pos, n.val), LAMBDA l:
    Ok(l.pos, attr_header(kind, name_index, length) @@ (field :> l.val))))

\* b"ConstantValue": assert_eq!(2, attribute_length), then the index
attr_ConstantValue(src, pos, name_index, length) ==
    IF length # U32(2) THEN Panic("assert_eq!", pos)
    ELSE attr_u16("ConstantValue", "constantvalue_index", src, pos,
                  name_index, length)

attr_Code(pool, oc, src, pos, name_index, length) ==
    Bind(read_u16s(src, pos, 2), LAMBDA m:
    Bind(read_u32(src, m.pos), LAMBDA cl:
    Bind(read_vec_u32(src, cl.pos, cl.val), LAMBDA code:
    Bind(attr_list16("Code", "exception_table", "ExceptionTableEntry", pool,
                     oc, src, code.pos, name_index, length), LAMBDA et:
    Bind(read_u16(src, et.pos), LAMBDA n:
    Bind(parse_elems("AttributeInfo", pool, oc, src, n.pos, n.val), LAMBDA a:
    Ok(a.pos, et.val @@ [max_stack |-> m.val[1],
                         max_locals |-> m.val[2],
                         code_length |-> cl.val,
                         code |-> code.val,
                         attributes |-> a.val])))))))

attr_EnclosingMethod(src, pos, name_index, length) ==
    Bind(read_u16s(src, pos, 2), LAMBDA r:
    Ok(r.pos, attr_header("EnclosingMethod", name_index, length)
                  @@ [class_index |-> r.val[1], method_index |-> r.val[2]]))

attr_SourceDebugExtension(src, pos, name_index, length) ==
    Bind(read_vec_u32(src, pos, length), LAMBDA r:
    Ok(r.pos, attr_header("SourceDebugExtension", name_index, length)
                  @@ [debug_extension |-> r.val]))

attr_AnnotationDefault(src, pos, name_index, length) ==
    Bind(ElementValue_parse(src, pos), LAMBDA v:
    Ok(v.pos, attr_header("AnnotationDefault", name_index, length)
                  @@ [default_value |-> v.val]))

\* b"MethodParameters": the arm reads attribute_name_index and
\* attribute_length from the stream again, shadowing the header's
attr_MethodParameters(src, pos) ==
    Bind(read_u16(src, pos), LAMBDA n:
    Bind(read_u32(src, n.pos), LAMBDA l:
    attr_list8("MethodParameters", "parameters", "MethodParameter", src,
               l.pos, n.val, l.val)))

\* b"Module": the arm reads attribute_name_index and attribute_length from
\* the stream again, shadowing the header's
attr_Module(src, pos) ==
    Bind(read_u16(src, pos), LAMBDA n:
    Bind(read_u32(src, n.pos), LAMBDA l:
    Bind(read_u16s(src, l.pos, 3), LAMBDA h:
    Bind(attr_list16("Module", "requires", "ModuleRequires", <<>>, FALSE,
                     src, h.pos, n.val, l.val), LAMBDA rq:
    Bind(attr_list16("Module", "exports", "ModuleExports", <<>>, FALSE, src,
                     rq.pos, n.val, l.val), LAMBDA ex:
    Bind(attr_list16("Module", "opens", "ModuleOpens", <<>>, FALSE, src,
                     ex.pos, n.val, l.val), LAMBDA op:
    Bind(attr_list16("Module", "uses_index", "u16", <<>>, FALSE, src,
                     op.pos, n.val, l.val), LAMBDA us:
    Bind(attr_list16("Module", "provides", "ModuleProvides", <<>>, FALSE,
                     src, us.pos, n.val, l.val), LAMBDA pr:
    Ok(pr.pos, pr.val @@ us.val @@ op.val @@ ex.val @@ rq.val @@
               [module_name_index |-> h.val[1],
                module_flags |->
                    from_bits_truncate(ModuleFlags_all, h.val[2]),
                module_version_index |-> h.val[3]])))))))))

\* the arm _ => of the name match: read attribute_length bytes into info,
\* then todo!("must be ignored silently")
attr_unknown(src, pos, length) ==
    Bind(read_vec_u32(src, pos, length), LAMBDA info:
    Panic("todo!()", info.pos))

\* bytes.as_slice() is one of the patterns of the name match
is_known_name(bytes) == bytes \in AttributeNames

\* the match on the attribute's name, after the header has been read
AttributeInfo_match(pool, oc, src, pos, ni, len, bytes) ==
    CASE bytes = Names.ConstantValue -> attr_ConstantValue(src, pos, ni, len)
      [] bytes = Names.Code -> attr_Code(pool, oc, src, pos, ni, len)
      [] bytes = Names.StackMapTable ->
             attr_list16("StackMapTable", "entries", "StackMapFrame", pool,
                         oc, src, pos, ni, len)
      [] bytes = Names.Exceptions ->
             attr_list16("Exceptions", "exception_index_table", "u16", pool,
                         oc, src, pos, ni, len)
      [] bytes = Names.InnerClasses ->
             attr_list16("InnerClasses", "classes", "InnerClass", pool, oc,
                         src, pos, ni, len)
      [] bytes = Names.EnclosingMethod -> attr_EnclosingMethod(src, pos, ni, len)
      [] bytes = Names.Synthetic -> Ok(pos, attr_header("Synthetic", ni, len))
      [] bytes = Names.Signature ->
             attr_u16("Signature", "signature_index", src, pos, ni, len)
      [] bytes = Names.SourceFile ->
             attr_u16("SourceFile", "sourcefile_index", src, pos, ni, len)
      [] bytes = Names.SourceDebugExtension ->
             attr_SourceDebugExtension(src, pos, ni, len)
      [] bytes = Names.LineNumberTable ->
             attr_list16("LineNumberTable", "line_number_table",
                         "LineNumberTableEntry", pool, oc, src, pos, ni, len)
      [] bytes = Names.LocalVariableTable ->
             attr_list16("LocalVariableTable", "local_variable_table",
                         "LocalVariableTableEntry", pool, oc, src, pos, ni,
                         len)
      [] bytes = Names.LocalVariableTypeTable ->
             attr_list16("LocalVariableTypeTable",
                         "local_variable_type_table",
                         "LocalVariableTypeTableEntry", pool, oc, src, pos,
                         ni, len)
      [] bytes = Names.Deprecated -> Ok(pos, attr_header("Deprecated", ni, len))
      [] bytes = Names.RuntimeVisibleAnnotations ->
             attr_list16("RuntimeVisibleAnnotations", "annotations",
                         "Annotation", pool, oc, src, pos, ni, len)
      [] bytes = Names.RuntimeInvisibleAnnotations ->
             attr_list16("RuntimeInvisibleAnnotations", "annotations",
                         "Annotation", pool, oc, src, pos, ni, len)
      [] bytes = Names.RuntimeVisibleParameterAnnotations ->
             attr_list8("RuntimeVisibleParameterAnnotations",
                        "parameter_annotations", "ParameterAnnotations", src,
                        pos, ni, len)
      [] bytes = Names.RuntimeInvisibleParameterAnnotations ->
             attr_list8("RuntimeInvisibleParameterAnnotations",
                        "parameter_annotations", "ParameterAnnotations", src,
                        pos, ni, len)
      [] bytes = Names.RuntimeVisibleTypeAnnotations ->
             attr_list16("RuntimeVisibleTypeAnnotations", "annotations",
                         "TypeAnnotation", pool, oc, src, pos, ni, len)
      [] bytes = Names.RuntimeInvisibleTypeAnnotations ->
             attr_list16("RuntimeInvisibleTypeAnnotations", "annotations",
                         "TypeAnnotation", pool, oc, src, pos, ni, len)
      [] bytes = Names.AnnotationDefault ->
             attr_AnnotationDefault(src, pos, ni, len)
      [] bytes = Names.BootstrapMethods ->
             attr_list16("BootstrapMethods", "bootstrap_methods",
                         "BootstrapMethod", pool, oc, src, pos, ni, len)
      [] bytes = Names.MethodParameters -> attr_MethodParameters(src, pos)
      [] bytes = Names.Module -> attr_Module(src, pos)
      [] bytes = Names.ModulePackages ->
             attr_list16("ModulePackages", "package_index", "u16", pool, oc,
                         src, pos, ni, len)
      [] bytes = Names.ModuleMainClass ->
             attr_u16("ModuleMainClass", "main_class_index", src, pos, ni,
                      len)
      [] bytes = Names.NestHost ->
             attr_u16("NestHost", "host_class_index", src, pos, ni, len)
      [] bytes = Names.NestMembers ->
             attr_list16("NestMembers", "classes", "u16", pool, oc, src, pos,
                         ni, len)
      [] bytes = Names.Record ->
             attr_list16("Record", "components", "RecordComponentInfo", pool,
                         oc, src, pos, ni, len)
      [] bytes = Names.PermittedSubclasses ->
             attr_list16("PermittedSubclasses", "classes", "u16", pool, oc,
                         src, pos, ni, len)
      [] OTHER -> attr_unknown(src, pos, len)

\* x - 1 on a u16: a checked build panics on 0 - 1, an unchecked one wraps;
\* the result is -1 for the panic
u16_sub_1(x, oc) == IF x > 0 THEN x - 1 ELSE IF oc THEN -1 ELSE 65535

\* the entry that &cp[i] names, matched on its kind
AttributeInfo_entry(pool, oc, src, pos, ni, len, i) ==
    IF i < 0 THEN Panic("attempt to subtract with overflow", pos)
    ELSE IF i >= Len(pool) THEN Panic("index out of bounds", pos)
    ELSE IF pool[i + 1].kind = "Utf8Info"
    THEN AttributeInfo_match(pool, oc, src, pos, ni, len, pool[i + 1].bytes)
    ELSE Err("InvalidAttributeNameIndex", pos)

\* &cp[(attribute_name_index - 1) as usize] and the match on the entry:
\* Vec's index panics past the end of items
AttributeInfo_lookup(pool, oc, src, pos, ni, len) ==
    AttributeInfo_entry(pool, oc, src, pos, ni, len, u16_sub_1(ni, oc))

AttributeInfo_parse(pool, oc, src, pos) ==
    Bind(read_u16(src, pos), LAMBDA n:
    Bind(read_u32(src, n.pos), LAMBDA l:
    AttributeInfo_lookup(pool, oc, src, l.pos, n.val, l.val)))

(***************************************************************************)
(* Records that own attribute lists.                                       *)
(***************************************************************************)
RecordComponentInfo_parse(pool, oc, src, pos) ==
    Bind(read_u16s(src, pos, 3), LAMBDA r:
    Bind(parse_elems("AttributeInfo", pool, oc, src, r.pos, r.val[3]),
         LAMBDA a:
    Ok(a.pos, [name_index |-> r.val[1], descriptor_index |-> r.val[2],
               attributes |-> a.val])))

\* FieldInfo::parse and MethodInfo::parse, all the defined bits of the flags
member_parse(all, pool, oc, src, pos) ==
    Bind(read_u16s(src, pos, 4), LAMBDA r:
    Bind(parse_elems("AttributeInfo", pool, oc, src, r.pos, r.val[4]),
         LAMBDA a:
    Ok(a.pos, [access_flags |-> from_bits_truncate(all, r.val[1]),
               name_index |-> r.val[2],
               descriptor_index |-> r.val[3],
               attributes |-> a.val])))

FieldInfo_parse(pool, oc, src, pos) ==
    member_parse(FieldAccessFlags_all, pool, oc, src, pos)

MethodInfo_parse(pool, oc, src, pos) ==
    member_parse(MethodAccessFlags_all, pool, oc, src, pos)

\* X::parse(source) or X::parse(cp, source), X named by elem
parse_elem(elem, pool, oc, src, pos) ==
    CASE elem = "u16" -> read_u16(src, pos)
      [] elem = "ConstantPoolInfo" -> ConstantPoolInfo_parse(src, pos)
      [] elem = "ExceptionTableEntry" -> ExceptionTableEntry_parse(src, pos)
      [] elem = "VerificationTypeInfo" -> VerificationTypeInfo_parse(src, pos)
      [] elem = "StackMapFrame" -> StackMapFrame_parse(src, pos)
      [] elem = "InnerClass" -> InnerClass_parse(src, pos)
      [] elem = "LineNumberTableEntry" -> LineNumberTableEntry_parse(src, pos)
      [] elem = "LocalVariableTableEntry" ->
             LocalVariableTableEntry_parse(src, pos)
      [] elem = "LocalVariableTypeTableEntry" ->
             LocalVariableTypeTableEntry_parse(src, pos)
      [] elem = "LocalVarTargetTableEntry" ->
             LocalVarTargetTableEntry_parse(src, pos)
      [] elem = "Path" -> Path_parse(src, pos)
      [] elem = "MethodParameter" -> MethodParameter_parse(src, pos)
      [] elem = "BootstrapMethod" -> BootstrapMethod_parse(src, pos)
      [] elem = "ModuleRequires" -> ModuleRequires_parse(src, pos)
      [] elem = "ModuleExports" -> ModuleExports_parse(src, pos)
      [] elem = "ModuleOpens" -> ModuleOpens_parse(src, pos)
      [] elem = "ModuleProvides" -> ModuleProvides_parse(src, pos)
      [] elem = "Annotation" -> Annotation_parse(src, pos)
      [] elem = "ParameterAnnotations" -> ParameterAnnotations_parse(src, pos)
      [] elem = "TypeAnnotation" -> TypeAnnotation_parse(src, pos)
      [] elem = "ElementValue" -> ElementValue_parse(src, pos)
      [] elem = "ElementValuePair" -> ElementValuePair_parse(src, pos)
      [] elem = "RecordComponentInfo" ->
             RecordComponentInfo_parse(pool, oc, src, pos)
      [] elem = "FieldInfo" -> FieldInfo_parse(pool, oc, src, pos)
      [] elem = "MethodInfo" -> MethodInfo_parse(pool, oc, src, pos)
      [] elem = "AttributeInfo" -> AttributeInfo_parse(pool, oc, src, pos)

\* for _ in 0..count { v.push(X::parse(..)?) }: the first count \div 2
\* iterations, then the others from where those stopped; the first failure
\* in reading order ends the loop either way
parse_elems(elem, pool, oc, src, pos, count) ==
    CASE count = 0 -> Ok(pos, <<>>)
      [] count = 1 -> Bind(parse_elem(elem, pool, oc, src, pos), LAMBDA e:
                      Ok(e.pos, <<e.val>>))
      [] OTHER ->
           Bind(parse_elems(elem, pool, oc, src, pos, count \div 2),
                LAMBDA front:
           Bind(parse_elems(elem, pool, oc, src, front.pos,
                            count - count \div 2), LAMBDA rest:
           Ok(rest.pos, front.val \o rest.val)))

(***************************************************************************)
(* ClassFile::parse.                                                       *)
(***************************************************************************)
\* the number of pool entries the loop reads for constant_pool_count:
\* for _ in 0..constant_pool_count - 1
pool_entries_to_read(constant_pool_count, oc) ==
    u16_sub_1(constant_pool_count, oc)

\* what follows the constant pool
ClassFile_parse_body(pool, oc, src, pos, versions) ==
    Bind(read_u16s(src, pos, 3), LAMBDA h:
    Bind(read_u16(src, h.pos), LAMBDA ic:
    Bind(parse_elems("u16", pool, oc, src, ic.pos, ic.val), LAMBDA interfaces:
    Bind(read_u16(src, interfaces.pos), LAMBDA fc:
    Bind(parse_elems("FieldInfo", pool, oc, src, fc.pos, fc.val),
         LAMBDA fields:
    Bind(read_u16(src, fields.pos), LAMBDA mc:
    Bind(parse_elems("MethodInfo", pool, oc, src, mc.pos, mc.val),
         LAMBDA methods:
    Bind(read_u16(src, methods.pos), LAMBDA ac:
    Bind(parse_elems("AttributeInfo", pool, oc, src, ac.pos, ac.val),
         LAMBDA attributes:
    Ok(attributes.pos,
       [magic |-> MAGIC,
        minor_version |-> versions[1],
        major_version |-> versions[2],
        cp_info |-> pool,
        access_flags |-> from_bits_truncate(ClassAccessFlags_all, h.val[1]),
        this_class |-> h.val[2],
        super_class |-> h.val[3],
        interfaces |-> interfaces.val,
        fields |-> fields.val,
        methods |-> methods.val,
        attributes |-> attributes.val]))))))))))

\* the constant pool: for _ in 0..constant_pool_count - 1, then the rest
ClassFile_parse_pool(oc, src, pos, versions, n) ==
    IF n < 0 THEN Panic("attempt to subtract with overflow", pos)
    ELSE Bind(parse_elems("ConstantPoolInfo", <<>>, oc, src, pos, n),
              LAMBDA cp_info:
         ClassFile_parse_body(cp_info.val, oc, src, cp_info.pos, versions))

ClassFile_parse(oc, src) ==
    Bind(read_u32(src, 0), LAMBDA magic:
    IF ~MagicMatches(magic.val) THEN Err("InvalidMagicValue", magic.pos)
    ELSE Bind(read_u16s(src, magic.pos, 2), LAMBDA v:
         Bind(read_u16(src, v.pos), LAMBDA cpc:
         ClassFile_parse_pool(oc, src, cpc.pos, v.val,
                              pool_entries_to_read(cpc.val, oc)))))

(***************************************************************************)
(* The inputs: byte streams written in the class-file format (JVMS 4), and *)
(* damaged copies of them.  These encoders are the callers' side; the      *)
(* decoder above never uses them.                                          *)
(***************************************************************************)
be16(x) == <<x \div 256, x % 256>>

be32(x) == be16(x \div 65536) \o be16(x % 65536)

RECURSIVE Rep(_, _)
Rep(n, bytes) == IF n = 0 THEN <<>> ELSE bytes \o Rep(n - 1, bytes)

RECURSIVE Concat(_)
Concat(ss) == IF ss = <<>> THEN <<>> ELSE Head(ss) \o Concat(Tail(ss))

\* a count-prefixed list of encoded elements
List16(ss) == be16(Len(ss)) \o Concat(ss)

E_Utf8(bytes) == <<1>> \o be16(Len(bytes)) \o bytes

E_Integer(x) == <<3>> \o be32(x)

E_Long(x) == <<5>> \o be32(0) \o be32(x)

E_Double(x) == <<6>> \o be32(x) \o be32(0)

E_Class(i) == <<7>> \o be16(i)

E_Methodref(c, nt) == <<10>> \o be16(c) \o be16(nt)

E_NameAndType(n, d) == <<12>> \o be16(n) \o be16(d)

\* an attribute: name index, the length of its payload, the payload
E_Attribute(name_index, payload) ==
    be16(name_index) \o be32(Len(payload)) \o payload

E_Member(flags, name, desc, attrs) ==
    be16(flags) \o be16(name) \o be16(desc) \o List16(attrs)

\* a class file: slots is the number of pool index slots the entries
\* occupy (two for a Long or Double), so constant_pool_count = slots + 1
E_Class_File(major, slots, entries, flags, this, super, ifs, fs, ms, as) ==
    <<202, 254, 186, 190>> \o be16(0) \o be16(major) \o be16(slots + 1)
        \o Concat(entries) \o be16(flags) \o be16(this) \o be16(super)
        \o List16(ifs) \o List16(fs) \o List16(ms) \o List16(as)

\* the letters of the names the fixtures use
B_A == <<65>>

\* an attribute name outside the fixed table
B_Vendor == <<88, 45, 118>>

(* The smallest class: two pool entries and nothing else. *)
V_Minimal ==
    E_Class_File(61, 2, <<E_Utf8(B_A), E_Class(1)>>, 33, 2, 0,
                 <<>>, <<>>, <<>>, <<>>)

(* A Long at slot 1 (slot 2 vacant), then the class name at slots 3, 4. *)
V_Long ==
    E_Class_File(61, 4, <<E_Long(7), E_Utf8(B_A), E_Class(3)>>, 33, 4, 0,
                 <<>>, <<>>, <<>>, <<>>)

(* A Double in the middle of the pool and one interface. *)
V_Double ==
    E_Class_File(61, 4, <<E_Utf8(B_A), E_Double(9), E_Class(1)>>, 33, 4, 0,
                 <<be16(4)>>, <<>>, <<>>, <<>>)

(* A field with a ConstantValue attribute. *)
V_Field ==
    E_Class_File(61, 4,
                 <<E_Utf8(B_A), E_Class(1), E_Utf8(Names.ConstantValue),
                   E_Integer(5)>>,
                 33, 2, 0, <<>>,
                 <<E_Member(25, 1, 1, <<E_Attribute(3, be16(4))>>)>>,
                 <<>>, <<>>)

(* A method with a Code attribute holding a LineNumberTable, and a        *)
(* SourceFile attribute: the shape of the fixture Foo.class.              *)
V_Method ==
    E_Class_File(61, 5,
                 <<E_Utf8(B_A), E_Class(1), E_Utf8(Names.Code),
                   E_Utf8(Names.LineNumberTable), E_Utf8(Names.SourceFile)>>,
                 33, 2, 0, <<>>, <<>>,
                 <<E_Member(1, 1, 1,
                     <<E_Attribute(3,
                         be16(0) \o be16(1) \o be32(1) \o <<177>>
                         \o be16(0)
                         \o List16(<<E_Attribute(4,
                                       List16(<<be16(0) \o be16(3)>>))>>))>>)>>,
                 <<E_Attribute(5, be16(1))>>)

(* A class-level attribute of a name outside the table, with L payload    *)
(* bytes, followed by a SourceFile attribute.                             *)
V_Vendor(L) ==
    E_Class_File(61, 4,
                 <<E_Utf8(B_A), E_Class(1), E_Utf8(B_Vendor),
                   E_Utf8(Names.SourceFile)>>,
                 33, 2, 0, <<>>, <<>>, <<>>,
                 <<E_Attribute(3, Rep(L, <<171>>)),
                   E_Attribute(4, be16(1))>>)

(* A method with a MethodParameters attribute of n parameters. *)
V_MethodParameters(n) ==
    E_Class_File(61, 3,
                 <<E_Utf8(B_A), E_Class(1), E_Utf8(Names.MethodParameters)>>,
                 33, 2, 0, <<>>, <<>>,
                 <<E_Member(1, 1, 1,
                     <<E_Attribute(3, <<n>> \o Rep(n, be16(1) \o be16(16)))>>)>>,
                 <<>>)

\* the class files in which every construct is one the decoder implements
\* as the format describes it
PlainClassFiles == {V_Minimal, V_Field, V_Method}

ValidClassFiles ==
    PlainClassFiles \cup {V_Long, V_Double}
        \cup {V_Vendor(L) : L \in 0..MaxSkipLen}
        \cup {V_MethodParameters(n) : n \in 0..MaxCount}

\* the proper prefixes of s
Truncations(s) == {SubSeq(s, 1, k) : k \in 0..(Len(s) - 1)}

TruncatedValid == UNION {Truncations(s) : s \in ValidClassFiles}

(***************************************************************************)
(* Constant pools handed to AttributeInfo::parse.                          *)
(***************************************************************************)
Utf8Info(bytes) == [kind |-> "Utf8Info", length |-> Len(bytes), bytes |-> bytes]

\* the names of the table in the order of the match arms
AttributeNameSeq ==
    <<
      Names.ConstantValue, Names.Code, Names.StackMapTable,
      Names.Exceptions, Names.InnerClasses, Names.EnclosingMethod,
      Names.Synthetic, Names.Signature, Names.SourceFile,
      Names.SourceDebugExtension, Names.LineNumberTable,
      Names.LocalVariableTable, Names.LocalVariableTypeTable,
      Names.Deprecated, Names.RuntimeVisibleAnnotations,
      Names.RuntimeInvisibleAnnotations,
      Names.RuntimeVisibleParameterAnnotations,
      Names.RuntimeInvisibleParameterAnnotations,
      Names.RuntimeVisibleTypeAnnotations,
      Names.RuntimeInvisibleTypeAnnotations, Names.AnnotationDefault,
      Names.BootstrapMethods, Names.MethodParameters, Names.Module,
      Names.ModulePackages, Names.ModuleMainClass, Names.NestHost,
      Names.NestMembers, Names.Record, Names.PermittedSubclasses
    >>

NumNames == Len(AttributeNameSeq)

\* entries 1..30: the thirty names; 31: a name outside the table;
\* 32: a ClassInfo; 33: a LongInfo
AttrPool ==
    [i \in 1..NumNames |-> Utf8Info(AttributeNameSeq[i])]
        \o << Utf8Info(B_Vendor),
              [kind |-> "ClassInfo", name_index |-> 31],
              [kind |-> "LongInfo", high_bytes |-> U32(0),
               low_bytes |-> U32(7)] >>

\* the pool that test_simple_class_file expects for Foo.class
FooPool ==
    << [kind |-> "MethodrefInfo", class_index |-> 2,
        name_and_type_index |-> 3],
       [kind |-> "ClassInfo", name_index |-> 4],
       [kind |-> "NameAndTypeInfo", name_index |-> 5, descriptor_index |-> 6],
       Utf8Info(
           <<106, 97, 118, 97, 47, 108, 97, 110, 103, 47, 79, 98, 106, 101,
           99, 116>>),
       Utf8Info(<<60, 105, 110, 105, 116, 62>>),
       Utf8Info(<<40, 41, 86>>),
       [kind |-> "ClassInfo", name_index |-> 8],
       Utf8Info(<<70, 111, 111>>),
       Utf8Info(Names.Code),
       Utf8Info(Names.LineNumberTable),
       Utf8Info(<<98, 97, 114>>),
       Utf8Info(Names.SourceFile),
       Utf8Info(<<70, 111, 111, 46, 106, 97, 118, 97>>) >>

Pools == {AttrPool, FooPool}

(***************************************************************************)
(* Attributes written as the format describes them, for the names of       *)
(* AttrPool: Payload(i, n) is the payload of the attribute named by entry  *)
(* i with n elements in each of its lists.                                 *)
(***************************************************************************)
\* an annotation with n element-value pairs, each a const value 'I'
P_Annotation(n) == be16(1) \o be16(n) \o Rep(n, be16(1) \o <<73>> \o be16(1))

\* a type annotation: target_type 0x13 (empty target), an empty path
P_TypeAnnotation(n) == <<19, 0>> \o be16(1) \o be16(n)
                           \o Rep(n, be16(1) \o <<115>> \o be16(1))

\* three stack map frames: same, same_locals_1_stack_item, full_frame
P_Frames ==
    << <<0>>, <<64, 1>>,
       <<255>> \o be16(0) \o be16(1) \o <<7>> \o be16(1) \o be16(0) >>

P_Code(n) ==
    be16(n) \o be16(n) \o be32(n) \o Rep(n, <<177>>)
        \o be16(n) \o Rep(n, be16(0) \o be16(1) \o be16(0) \o be16(0))
        \o be16(n) \o Rep(n, E_Attribute(11, be16(1) \o be16(0) \o be16(1)))

P_Module(n) ==
    be16(1) \o be16(32) \o be16(0)
        \o be16(n) \o Rep(n, be16(1) \o be16(32) \o be16(0))
        \o be16(n) \o Rep(n, be16(1) \o be16(0) \o be16(1) \o be16(2))
        \o be16(n) \o Rep(n, be16(1) \o be16(0) \o be16(0))
        \o be16(n) \o Rep(n, be16(1))
        \o be16(n) \o Rep(n, be16(1) \o be16(1) \o be16(2))

Payload(i, n) ==
    CASE AttributeNameSeq[i] = Names.ConstantValue -> be16(5)
      [] AttributeNameSeq[i] = Names.Code -> P_Code(n)
      [] AttributeNameSeq[i] = Names.StackMapTable ->
             be16(n) \o Concat(SubSeq(P_Frames, 1, n))
      [] AttributeNameSeq[i] \in {Names.Exceptions, Names.ModulePackages,
                                  Names.NestMembers, Names.PermittedSubclasses} ->
             be16(n) \o Rep(n, be16(3))
      [] AttributeNameSeq[i] = Names.InnerClasses ->
             be16(n) \o Rep(n, be16(1) \o be16(2) \o be16(3) \o be16(9))
      [] AttributeNameSeq[i] = Names.EnclosingMethod -> be16(1) \o be16(2)
      [] AttributeNameSeq[i] \in {Names.Synthetic, Names.Deprecated} -> <<>>
      [] AttributeNameSeq[i] \in {Names.Signature, Names.SourceFile,
                                  Names.ModuleMainClass, Names.NestHost} -> be16(7)
      [] AttributeNameSeq[i] = Names.SourceDebugExtension -> Rep(n, <<120>>)
      [] AttributeNameSeq[i] = Names.LineNumberTable ->
             be16(n) \o Rep(n, be16(0) \o be16(1))
      [] AttributeNameSeq[i] \in {Names.LocalVariableTable,
                                  Names.LocalVariableTypeTable} ->
             be16(n) \o Rep(n, be16(0) \o be16(1) \o be16(2) \o be16(3)
                                   \o be16(0))
      [] AttributeNameSeq[i] \in {Names.RuntimeVisibleAnnotations,
                                  Names.RuntimeInvisibleAnnotations} ->
             be16(n) \o Rep(n, P_Annotation(n))
      [] AttributeNameSeq[i] \in {Names.RuntimeVisibleParameterAnnotations,
                                  Names.RuntimeInvisibleParameterAnnotations} ->
             <<n>> \o Rep(n, be16(1) \o P_Annotation(n))
      [] AttributeNameSeq[i] \in {Names.RuntimeVisibleTypeAnnotations,
                                  Names.RuntimeInvisibleTypeAnnotations} ->
             be16(n) \o Rep(n, P_TypeAnnotation(n))
      [] AttributeNameSeq[i] = Names.AnnotationDefault ->
             <<91>> \o be16(n) \o Rep(n, <<64>> \o P_Annotation(n))
      [] AttributeNameSeq[i] = Names.BootstrapMethods ->
             be16(n) \o Rep(n, be16(1) \o be16(1) \o be16(2))
      [] AttributeNameSeq[i] = Names.MethodParameters ->
             <<n>> \o Rep(n, be16(1) \o be16(16))
      [] AttributeNameSeq[i] = Names.Module -> P_Module(n)
      [] AttributeNameSeq[i] = Names.Record ->
             be16(n) \o Rep(n, be16(1) \o be16(2) \o be16(0))

\* the sibling that follows every crafted attribute: a SourceFile attribute
Sibling == E_Attribute(9, be16(7))

WellFormedAttribute(i, n) == E_Attribute(i, Payload(i, n)) \o Sibling

WellFormedAttributes ==
    {WellFormedAttribute(i, n) : i \in 1..NumNames, n \in 0..MaxCount}

\* an attribute named by entry 31 of AttrPool, with L payload bytes
VendorAttribute(L) == E_Attribute(NumNames + 1, Rep(L, <<171>>)) \o Sibling

VendorAttributes == {VendorAttribute(L) : L \in 0..MaxSkipLen}

\* attribute_name_index values that name no UTF-8 entry of AttrPool:
\* 0, a ClassInfo, a LongInfo, one past the end, the largest u16
DanglingNameIndexes ==
    {0, NumNames + 2, NumNames + 3, Len(AttrPool) + 1, 65535}

DanglingAttributes ==
    {E_Attribute(i, be16(7)) \o Sibling : i \in DanglingNameIndexes}

\* ConstantValue attributes declaring the lengths 0 .. MaxSkipLen + 1
ConstantValueAttributes ==
    {E_Attribute(1, Rep(L, <<5>>)) \o Sibling : L \in 0..(MaxSkipLen + 1)}

AttributeSources ==
    WellFormedAttributes \cup VendorAttributes \cup DanglingAttributes
        \cup ConstantValueAttributes

\* every frame_type byte, followed by bytes that fit every frame shape
FrameSources == {<<t>> \o Rep(MaxCount + 4, <<0>>) : t \in 0..255}

\* every tag byte, followed by bytes that fit every entry shape
TagSources == {<<t>> \o be16(1) \o Rep(MaxCount + 5, <<1>>) : t \in 0..255}

\* deepest nesting of the crafted element values
MaxNest == 2

\* a ClassInfoIndex inside k arrays of one value each
NestedArray(k) == Rep(k, <<91>> \o be16(1)) \o <<99>> \o be16(1)

\* a ConstValueIndex inside k annotations of one pair each
NestedAnnotation(k) ==
    Rep(k, <<64>> \o be16(1) \o be16(1) \o be16(2)) \o <<115>> \o be16(1)

\* an array of the two, and k arrays that announce 3 values each
ElementValues ==
    UNION {{NestedArray(k), NestedAnnotation(k),
            <<91>> \o be16(2) \o NestedAnnotation(k) \o NestedArray(k),
            Rep(k, <<91, 0, 3>>)} : k \in 0..MaxNest}

\* the element values and every stream that is one cut short
ElementValueSources ==
    UNION {{SubSeq(s, 1, n) : n \in 0..Len(s)} : s \in ElementValues}

\* the bytes a damaged copy has in place of an original one
DamageBytes == {0, 2, 200, 255}

Damaged(s) ==
    {[s EXCEPT ![i] = b] : i \in 1..Len(s), b \in DamageBytes} \ {s}

\* a preamble announcing constant_pool_count = 0, then what follows
ZeroPoolCount ==
    { <<202, 254, 186, 190>> \o be16(0) \o be16(61) \o be16(0) \o t :
        t \in {<<>>, be16(33), E_Utf8(B_A) \o be16(33)} }

\* the methods of the round-trip family: code bytes, counters and line
\* numbers whose two bytes differ, so that a byte-order slip shows
MethodDescs ==
    { [flags |-> 1, max_stack |-> 258, max_locals |-> 1, code |-> <<177>>,
       start_pc |-> 0, line |-> 772],
      [flags |-> 9, max_stack |-> 2, max_locals |-> 513,
       code |-> <<42, 183, 0, 7, 177>>, start_pc |-> 4, line |-> 3] }

\* the sequences of at most MaxCount methods
MethodLists == UNION {[1..n -> MethodDescs] : n \in 0..MaxCount}

\* the classes of the round-trip family: a pool without 8-byte entries
\* (with or without an Integer, a Methodref and a NameAndType after the
\* names), no interfaces, no fields, methods with one Code attribute
\* holding one LineNumberTable, and one SourceFile attribute
ClassDescs ==
    [major : {61, 258}, extra : BOOLEAN, methods : MethodLists]

\* the pool of a class of the family, encoded entry by entry
E_RoundTripPool(d) ==
    <<E_Utf8(B_A), E_Class(1), E_Utf8(Names.Code),
      E_Utf8(Names.LineNumberTable), E_Utf8(Names.SourceFile)>>
        \o (IF d.extra
            THEN <<E_Integer(16909060), E_Methodref(2, 8),
                   E_NameAndType(1, 1)>>
            ELSE <<>>)

E_RoundTripMethod(m) ==
    E_Member(m.flags, 1, 1,
        <<E_Attribute(3,
            be16(m.max_stack) \o be16(m.max_locals) \o be32(Len(m.code))
                \o m.code \o be16(0)
                \o List16(<<E_Attribute(4,
                     List16(<<be16(m.start_pc) \o be16(m.line)>>))>>))>>)

\* the stream of the class d
E_RoundTrip(d) ==
    E_Class_File(d.major, Len(E_RoundTripPool(d)), E_RoundTripPool(d),
                 33, 2, 0, <<>>, <<>>,
                 [i \in 1..Len(d.methods) |-> E_RoundTripMethod(d.methods[i])],
                 <<E_Attribute(5, be16(1))>>)

\* the tree that the class d describes, field by field
T_RoundTripPool(d) ==
    << Utf8Info(B_A),
       [kind |-> "ClassInfo", name_index |-> 1],
       Utf8Info(Names.Code),
       Utf8Info(Names.LineNumberTable),
       Utf8Info(Names.SourceFile) >>
        \o (IF d.extra
            THEN << [kind |-> "IntegerInfo",
                     bytes |-> [hi |-> 258, lo |-> 772]],
                    [kind |-> "MethodrefInfo", class_index |-> 2,
                     name_and_type_index |-> 8],
                    [kind |-> "NameAndTypeInfo", name_index |-> 1,
                     descriptor_index |-> 1] >>
            ELSE <<>>)

T_RoundTripMethod(m) ==
    [access_flags |-> m.flags,
     name_index |-> 1,
     descriptor_index |-> 1,
     attributes |->
       << [kind |-> "Code",
           attribute_name_index |-> 3,
           attribute_length |->
               [hi |-> 0, lo |-> 24 + Len(m.code)],
           max_stack |-> m.max_stack,
           max_locals |-> m.max_locals,
           code_length |-> [hi |-> 0, lo |-> Len(m.code)],
           code |-> m.code,
           exception_table |-> <<>>,
           attributes |->
             << [kind |-> "LineNumberTable",
                 attribute_name_index |-> 4,
                 attribute_length |-> [hi |-> 0, lo |-> 6],
                 line_number_table |->
                     << [start_pc |-> m.start_pc,
                         line_number |-> m.line] >>] >>] >>]

T_RoundTrip(d) ==
    [magic |-> [hi |-> 51966, lo |-> 47806],
     minor_version |-> 0,
     major_version |-> d.major,
     cp_info |-> T_RoundTripPool(d),
     access_flags |-> 33,
     this_class |-> 2,
     super_class |-> 0,
     interfaces |-> <<>>,
     fields |-> <<>>,
     methods |->
         [i \in 1..Len(d.methods) |-> T_RoundTripMethod(d.methods[i])],
     attributes |->
         << [kind |-> "SourceFile",
             attribute_name_index |-> 5,
             attribute_length |-> [hi |-> 0, lo |-> 2],
             sourcefile_index |-> 1] >>]

\* the streams of the family, each with the tree it describes
RoundTripTable == {<<E_RoundTrip(d), T_RoundTrip(d)>> : d \in ClassDescs}

RoundTripSources == {e[1] : e \in RoundTripTable}

ClassSources ==
    ValidClassFiles \cup TruncatedValid \cup ZeroPoolCount
        \cup UNION {Damaged(s) : s \in PlainClassFiles}
        \cup RoundTripSources

Sources ==
    ClassSources \cup AttributeSources \cup FrameSources \cup TagSources
        \cup ElementValueSources

(***************************************************************************)
(* The state machine: a caller picks a stream, a pool and a build, and     *)
(* applies one of the decoder's public entry points to the stream once.    *)
(***************************************************************************)
Init ==
    /\ source \in Sources
    /\ cp \in Pools
    /\ overflow_checks \in BOOLEAN
    /\ called = "none"
    /\ result = Ok(0, <<>>)
    /\ NoThread
    /\ NoLoader
    /\ NoVfs

CallClassFile ==
    /\ called = "none"
    /\ called' = "ClassFile::parse"
    /\ result' = ClassFile_parse(overflow_checks, source)
    /\ UNCHANGED <<source, cp, overflow_checks, thread_vars, loader_vars,
                 vfs_vars>>

CallAttributeInfo ==
    /\ called = "none"
    /\ called' = "AttributeInfo::parse"
    /\ result' = AttributeInfo_parse(cp, overflow_checks, source, 0)
    /\ UNCHANGED <<source, cp, overflow_checks, thread_vars, loader_vars,
                 vfs_vars>>

CallStackMapFrame ==
    /\ called = "none"
    /\ called' = "StackMapFrame::parse"
    /\ result' = StackMapFrame_parse(source, 0)
    /\ UNCHANGED <<source, cp, overflow_checks, thread_vars, loader_vars,
                 vfs_vars>>

CallConstantPoolInfo ==
    /\ called = "none"
    /\ called' = "ConstantPoolInfo::parse"
    /\ result' = ConstantPoolInfo_parse(source, 0)
    /\ UNCHANGED <<source, cp, overflow_checks, thread_vars, loader_vars,
                 vfs_vars>>

CallElementValue ==
    /\ called = "none"
    /\ called' = "ElementValue::parse"
    /\ result' = ElementValue_parse(source, 0)
    /\ UNCHANGED <<source, cp, overflow_checks, thread_vars, loader_vars,
                 vfs_vars>>

Next ==
    \/ CallClassFile
    \/ CallAttributeInfo
    \/ CallStackMapFrame
    \/ CallConstantPoolInfo
    \/ CallElementValue

Spec == Init /\ [][Next]_vars

(***************************************************************************)
(* Properties of the decoder.                                              *)
(***************************************************************************)
\* what a call that returns can return: a value or one of the nine errors
Returns(r) == r.res = "Ok" \/ r.res \in ClassFileParseError

\* s has four bytes or more and they are not CA FE BA BE
BadMagic(s) == Len(s) >= 4 /\ SubSeq(s, 1, 4) # <<202, 254, 186, 190>>

\* the tags of JVMS table 4.4-B
KnownTags == {1, 3, 4, 5, 6, 7, 8, 9, 10, 11, 12, 15, 16, 17, 18, 19, 20}

\* s is a preamble with a good magic and a constant_pool_count of two or
\* more, followed by a first pool entry of unknown tag
FirstTagUnknown(s) ==
    /\ Len(s) >= 11
    /\ SubSeq(s, 1, 4) = <<202, 254, 186, 190>>
    /\ s[9] * 256 + s[10] >= 2
    /\ s[11] \notin KnownTags

\* the attribute at the head of s names no UTF-8 entry of pool: index 0,
\* an index past the end, or an entry of another kind
NameIndexDangles(pool, s) ==
    /\ Len(s) >= 6
    /\ \/ s[1] * 256 + s[2] = 0
       \/ s[1] * 256 + s[2] > Len(pool)
       \/ pool[s[1] * 256 + s[2]].kind # "Utf8Info"

\* C1: ClassFile::parse never aborts: for every stream, one announcing
\* constant_pool_count = 0 included, it returns a ClassFile or one of the
\* nine decode errors
C1_ParseNeverAborts ==
    called = "ClassFile::parse" => Returns(result)

\* C2: a stream whose first four bytes are not CA FE BA BE is rejected
\* with InvalidMagicValue, and nothing after the fourth byte is read: the
\* result is the one of the four bytes alone
C2_BadMagicRejected ==
    called = "ClassFile::parse" /\ BadMagic(source) =>
        /\ result = Err("InvalidMagicValue", 4)
        /\ result = ClassFile_parse(overflow_checks, SubSeq(source, 1, 4))

\* C2 happens: a stream longer than its bad magic has been rejected
C2_BadMagicSeen ==
    /\ called = "ClassFile::parse"
    /\ BadMagic(source)
    /\ Len(source) > 4
    /\ result.res = "InvalidMagicValue"

\* C3: every proper prefix of a valid class file makes ClassFile::parse
\* return UnexpectedEOF
C3_TruncationIsEOF ==
    called = "ClassFile::parse" /\ source \in TruncatedValid =>
        result.res = "UnexpectedEOF"

\* C4: an attribute of a name outside the table, declaring L bytes, is
\* stepped over: the decoder consumes the 6 header bytes and L more and
\* does not fail, and the class that holds it decodes without it, the
\* sibling after it decoded as usual
C4_UnknownAttributeSkipped ==
    /\ called = "AttributeInfo::parse" /\ cp = AttrPool =>
           \A L \in 0..MaxSkipLen :
               source = VendorAttribute(L) =>
                   result.res = "Ok" /\ result.pos = 6 + L
    /\ called = "ClassFile::parse" =>
           \A L \in 0..MaxSkipLen :
               source = V_Vendor(L) =>
                   /\ result.res = "Ok"
                   /\ result.val.attributes =
                          << attr_header("SourceFile", 4, U32(2))
                                 @@ [sourcefile_index |-> 1] >>

\* C5: every attribute of a name of the table, written as the format
\* describes it, is decoded with the header read once and exactly
\* attribute_length bytes consumed after it
C5_ExactLength ==
    called = "AttributeInfo::parse" /\ cp = AttrPool =>
        \A i \in 1..NumNames, n \in 0..MaxCount :
            source = WellFormedAttribute(i, n) =>
                /\ result.res = "Ok"
                /\ result.pos = 6 + Len(Payload(i, n))
                /\ result.val.attribute_name_index = i
                /\ result.val.attribute_length = U32(Len(Payload(i, n)))

\* C6: with constant_pool_count = N the pool fills the slots 1 .. N - 1,
\* a Long or Double taking two of them, and the two bytes after the pool
\* are the access flags
C6_PoolSlots ==
    called = "ClassFile::parse"
        /\ source \in PlainClassFiles \cup {V_Long, V_Double} =>
        /\ result.res = "Ok"
        /\ result.val.access_flags = 33
        /\ result.val.major_version = 61

\* C7: an attribute whose attribute_name_index is 0, lies past the end of
\* the pool or names an entry that is no UTF-8 entry makes
\* AttributeInfo::parse return InvalidAttributeNameIndex
C7_DanglingNameIndex ==
    called = "AttributeInfo::parse" /\ NameIndexDangles(cp, source) =>
        result.res = "InvalidAttributeNameIndex"

\* C8: a pool entry whose tag is none of 1, 3-12, 15-20 fails at once with
\* InvalidConstantPoolInfoTag, nothing after the tag byte read: in
\* ConstantPoolInfo::parse, and in ClassFile::parse at the first entry
C8_UnknownTagRejected ==
    /\ called = "ConstantPoolInfo::parse" /\ Len(source) >= 1
           /\ source[1] \notin KnownTags =>
           result = Err("InvalidConstantPoolInfoTag", 1)
    /\ called = "ClassFile::parse" /\ FirstTagUnknown(source) =>
           result = Err("InvalidConstantPoolInfoTag", 11)

\* C8 happens: an entry of tag 2 with bytes after it has been rejected by
\* ConstantPoolInfo::parse, and a class file whose first entry has an
\* unknown tag exists among the streams
C8_UnknownTagSeen ==
    /\ called = "ConstantPoolInfo::parse"
    /\ Len(source) > 1
    /\ source[1] = 2
    /\ result.res = "InvalidConstantPoolInfoTag"
    /\ \E s \in ClassSources : FirstTagUnknown(s)

\* C9: a frame_type in 128 .. 246 makes StackMapFrame::parse return a
\* decode error
C9_ReservedFrameType ==
    called = "StackMapFrame::parse" /\ Len(source) >= 1
        /\ source[1] \in 128..246 =>
        result.res \in ClassFileParseError

\* C10: a ConstantValue attribute whose attribute_length is not 2 makes
\* AttributeInfo::parse return a decode error
C10_ConstantValueLength ==
    called = "AttributeInfo::parse" /\ cp = AttrPool
        /\ source \in ConstantValueAttributes
        /\ SubSeq(source, 3, 6) # <<0, 0, 0, 2>> =>
        result.res \in ClassFileParseError

\* C11: a well-formed minimal class (a pool without 8-byte entries, no
\* interfaces, no fields, methods with one Code attribute holding one
\* LineNumberTable, one SourceFile attribute) decodes to the tree it
\* describes, every field exact and in order, and the decoder consumes
\* the stream to its last byte
C11_RoundTrip ==
    called = "ClassFile::parse" =>
        \A e \in RoundTripTable :
            source = e[1] => result = Ok(Len(source), e[2])

\* C11 happens: a class of the family with two methods and the larger
\* pool has been decoded to its last byte
C11_RoundTripSeen ==
    /\ called = "ClassFile::parse"
    /\ source \in RoundTripSources
    /\ result.res = "Ok"
    /\ result.pos = Len(source)
    /\ Len(result.val.methods) = 2
    /\ Len(result.val.cp_info) = 8

\* the largest of a set of naturals, 0 for none
Largest(S) == IF S = {} THEN 0 ELSE CHOOSE m \in S : \A x \in S : x <= m

RECURSIVE Nesting(_)
\* how deep the calls of ElementValue::parse that made an element value
\* were nested: 1 for a value that holds no other
Nesting(v) ==
    CASE v.kind = "ArrayValue" ->
             1 + Largest({Nesting(v.values[i]) : i \in DOMAIN v.values})
      [] v.kind = "AnnotationValue" ->
             1 + Largest({Nesting(v.annotation.element_value_pairs[i].value) :
                            i \in DOMAIN v.annotation.element_value_pairs})
      [] OTHER -> 1

\* C27: ElementValue::parse ends on every stream, with a value or with an
\* error of ClassFileParseError and inside the stream; every call that made
\* the value, nested ones included, has taken its tag and at least two
\* bytes more of its own, so the depth of the recursion is bounded by a
\* third of the length of the stream
C27_ElementValueTerminates ==
    called = "ElementValue::parse" =>
        /\ result.res \in {"Ok"} \cup ClassFileParseError
        /\ result.pos <= Len(source)
        /\ result.res = "Ok" => 3 * Nesting(result.val) <= result.pos
        /\ Len(source) < 3 => result.res \in ClassFileParseError

\* an array holding an annotation nested MaxNest deep has been decoded to
\* its last byte
C27_NestedValueDecoded ==
    /\ called = "ElementValue::parse"
    /\ result.res = "Ok"
    /\ result.pos = Len(source)
    /\ result.val.kind = "ArrayValue"
    /\ Len(result.val.values) = 2
    /\ result.val.values[1].kind = "AnnotationValue"
    /\ Nesting(result.val) = MaxNest + 2

(***************************************************************************)
(* The interpreter thread (libjvm/src/vm/thread.rs) and its stack          *)
(* (libjvm/src/vm/stack.rs).                                               *)
(*                                                                         *)
(* A NativeValue is the record [variant, v].  The payload v is an integer  *)
(* for every variant: the number itself for Byte, Char, Short, Integer,    *)
(* Long, Reference and ReturnAddress, 0 or 1 for Boolean, the real number  *)
(* for a Double made from an int (every i32 is an f64), and the IEEE-754   *)
(* single bit pattern read as an i32 for Float.  An i32 is an integer of   *)
(* -2^31 .. 2^31 - 1; sums and products are formed on 16-bit halves and    *)
(* 8-bit limbs, which is the two's-complement arithmetic of the machine.   *)
(* An operand stack is a sequence, the top last (Vec::push / Vec::pop).    *)
(***************************************************************************)
\* enum NativeValue
NativeValue(variant, v) == [variant |-> variant, v |-> v]

i32_MAX == 2147483647

i32_MIN == -i32_MAX - 1

\* the two's-complement bit pattern of an i32, as two 16-bit halves
i32_to_halves(v) == [hi |-> (v \div 65536) % 65536, lo |-> v % 65536]

\* the i32 of a bit pattern given as two 16-bit halves
i32_from_halves(h) ==
    IF h.hi >= 32768 THEN (h.hi - 65536) * 65536 + h.lo
    ELSE h.hi * 65536 + h.lo

\* the sum of the halves, the carry out of the lower half dropped
wrapping_add_no_carry(a, b) ==
    LET x == i32_to_halves(a)
        y == i32_to_halves(b)
    IN  i32_from_halves([hi |-> (x.hi + y.hi) % 65536,
                         lo |-> (x.lo + y.lo) % 65536])

\* i32::wrapping_add: the low 32 bits of the sum
wrapping_add(a, b) ==
    LET x == i32_to_halves(a)
        y == i32_to_halves(b)
        lo == x.lo + y.lo
    IN  i32_from_halves([hi |-> (x.hi + y.hi + (lo \div 65536)) % 65536,
                         lo |-> lo % 65536])

\* the four bytes of the bit pattern of an i32, the lowest first
i32_to_le_bytes(v) ==
    <<v % 256, (v \div 256) % 256, (v \div 65536) % 256,
      (v \div 16777216) % 256>>

\* i32::wrapping_mul: the low 32 bits of the product, by columns of limbs
wrapping_mul(a, b) ==
    LET x == i32_to_le_bytes(a)
        y == i32_to_le_bytes(b)
        c1 == x[1] * y[1]
        c2 == x[1] * y[2] + x[2] * y[1] + (c1 \div 256)
        c3 == x[1] * y[3] + x[2] * y[2] + x[3] * y[1] + (c2 \div 256)
        c4 == x[1] * y[4] + x[2] * y[3] + x[3] * y[2] + x[4] * y[1]
              + (c3 \div 256)
    IN  i32_from_halves([hi |-> (c4 % 256) * 256 + (c3 % 256),
                         lo |-> (c2 % 256) * 256 + (c1 % 256)])

\* the bits of the f32 with sign s, binary exponent k and 24-bit significand m
f32_bits(s, k, m) ==
    LET magnitude == (k + 127) * 8388608 + (m - 8388608)
    IN  IF s < 0 THEN i32_MIN + magnitude ELSE magnitude

\* v as f32: round to nearest, ties to even, on a 24-bit significand
as_f32(v) ==
    IF v = 0 THEN 0
    ELSE IF v = i32_MIN THEN f32_bits(-1, 31, 8388608)
    ELSE LET a == IF v < 0 THEN -v ELSE v
             k == CHOOSE i \in 0..30 : a \div 2^i = 1
         IN  IF k <= 23 THEN f32_bits(v, k, a * 2^(23 - k))
             ELSE LET q == a \div 2^(k - 23)
                      r == a % 2^(k - 23)
                      half == 2^(k - 24)
                      m == IF r > half \/ (r = half /\ q % 2 = 1)
                           THEN q + 1 ELSE q
                  IN  IF m = 16777216 THEN f32_bits(v, k + 1, 8388608)
                      ELSE f32_bits(v, k, m)

\* the low bits of v taken as they are, the sign bit of the target not read
int_as_low_bits(variant, v) ==
    CASE variant = "Byte" -> v % 256
      [] variant = "Char" -> v % 65536
      [] variant = "Double" -> v
      [] variant = "Float" -> as_f32(v)
      [] variant = "Long" -> v
      [] variant = "Short" -> v % 65536

\* the casts of i2b, i2c, i2d, i2f, i2l and i2s: v as i8, v as u16, v as f64
\* (every i32 is an f64), v as f32, v as i64 (sign extension keeps the
\* number), v as i16
int_as(variant, v) ==
    CASE variant = "Byte" ->
             IF v % 256 >= 128 THEN (v % 256) - 256 ELSE v % 256
      [] variant = "Char" -> v % 65536
      [] variant = "Double" -> v
      [] variant = "Float" -> as_f32(v)
      [] variant = "Long" -> v
      [] variant = "Short" ->
             IF v % 65536 >= 32768 THEN (v % 65536) - 65536 ELSE v % 65536

\* an operation on an operand stack went through: the stack after it and
\* the value it yields (0 when it yields none)
Step(os, val) == [fault |-> "none", os |-> os, val |-> val]

\* an operation on an operand stack panicked with the stack as left
Aborted(why, os) == [fault |-> why, os |-> os, val |-> 0]

\* the panic of Option::unwrap
UnwrapNone == "called Option::unwrap() on a None value"

OperandStack_push(os, v) == Step(Append(os, v), 0)

OperandStack_last(os) ==
    IF os = <<>> THEN Aborted(UnwrapNone, os) ELSE Step(os, os[Len(os)])

OperandStack_pop(os) ==
    IF os = <<>> THEN Aborted(UnwrapNone, os)
    ELSE Step(SubSeq(os, 1, Len(os) - 1), os[Len(os)])

\* the payload of the popped value, whatever its variant
pop_typed_unchecked(variant, os) ==
    LET p == OperandStack_pop(os)
    IN  IF p.fault # "none" THEN p ELSE Step(p.os, p.val.v)

\* pop_boolean .. pop_return_address: the popped value's payload, or
\* panic!("invalid type") once the value is off the stack
pop_typed(variant, os) ==
    LET p == OperandStack_pop(os)
    IN  IF p.fault # "none" THEN p
        ELSE IF p.val.variant = variant THEN Step(p.os, p.val.v)
        ELSE Aborted("invalid type", p.os)

a_const_null(os) == OperandStack_push(os, NativeValue("Reference", 0))

\* the cast attempted on every reference, null included
check_cast_of_null_too(index, os) ==
    LET reference == pop_typed("Reference", os)
    IN  IF reference.fault # "none" THEN reference
        ELSE Aborted("not yet implemented: cast", reference.os)

check_cast(index, os) ==
    LET top == OperandStack_last(os)
        reference == pop_typed("Reference", os)
    IN  IF top.fault # "none" THEN top
        ELSE IF top.val = NativeValue("Reference", 0) THEN Step(os, 0)
        ELSE IF reference.fault # "none" THEN reference
        ELSE Aborted("not yet implemented: cast", reference.os)

\* a copy of the top pushed as an Integer of its payload
dup_coerced(os) ==
    LET top == OperandStack_last(os)
    IN  IF top.fault # "none" THEN top
        ELSE OperandStack_push(os, NativeValue("Integer", top.val.v))

dup(os) ==
    LET top == OperandStack_last(os)
    IN  IF top.fault # "none" THEN top ELSE OperandStack_push(os, top.val)

\* i2b, i2c, i2d, i2f, i2l, i2s: the handler pushing the given variant
i2(variant, os) ==
    LET v == pop_typed("Integer", os)
    IN  IF v.fault # "none" THEN v
        ELSE OperandStack_push(v.os, NativeValue(variant, int_as(variant, v.val)))

iadd(os) ==
    LET op2 == pop_typed("Integer", os)
        op1 == pop_typed("Integer", op2.os)
    IN  IF op2.fault # "none" THEN op2
        ELSE IF op1.fault # "none" THEN op1
        ELSE OperandStack_push(op1.os,
                 NativeValue("Integer", wrapping_add(op1.val, op2.val)))

imul(os) ==
    LET op2 == pop_typed("Integer", os)
        op1 == pop_typed("Integer", op2.os)
    IN  IF op2.fault # "none" THEN op2
        ELSE IF op1.fault # "none" THEN op1
        ELSE OperandStack_push(op1.os,
                 NativeValue("Integer", wrapping_mul(op1.val, op2.val)))

\* an instruction: the Op variant and its operand (0 when it has none)
Op(name, arg) == [name |-> name, arg |-> arg]

\* the arms of the match in Thread::evaluate that call a handler
Handled ==
    {"AConstNull", "CheckCast", "Dup", "I2B", "I2C", "I2D", "I2F", "I2L",
     "I2S", "IAdd", "IMul"}

\* the handler of an arm of Handled, applied to the operand stack
handler(o, os) ==
    CASE o.name = "AConstNull" -> a_const_null(os)
      [] o.name = "CheckCast" -> check_cast(o.arg, os)
      [] o.name = "Dup" -> dup(os)
      [] o.name = "I2B" -> i2("Byte", os)
      [] o.name = "I2C" -> i2("Char", os)
      [] o.name = "I2D" -> i2("Double", os)
      [] o.name = "I2F" -> i2("Float", os)
      [] o.name = "I2L" -> i2("Long", os)
      [] o.name = "I2S" -> i2("Short", os)
      [] o.name = "IAdd" -> iadd(os)
      [] o.name = "IMul" -> imul(os)

\* Frame::allocate: the two sizes are capacities of empty vectors
Frame_allocate(locals_size, operand_stack_size, constant_pool) ==
    [locals |-> <<>>, operand_stack |-> <<>>,
     constant_pool |-> constant_pool]

\* Stack::push_frame
push_frame(frames, frame) == Append(frames, frame)

\* the frame pushed first taken out, as a queue would
pop_frame_oldest(frames) ==
    IF frames = <<>> THEN [fault |-> UnwrapNone, frames |-> frames, val |-> <<>>]
    ELSE [fault |-> "none", frames |-> Tail(frames), val |-> <<Head(frames)>>]

\* Stack::pop_frame: frames.pop().unwrap()
pop_frame(frames) ==
    IF frames = <<>> THEN [fault |-> UnwrapNone, frames |-> frames, val |-> <<>>]
    ELSE [fault |-> "none", frames |-> SubSeq(frames, 1, Len(frames) - 1),
          val |-> <<frames[Len(frames)]>>]

\* Thread::operand_stack_mut: the operand stack of the frame that
\* Stack::current_frame_mut gives, frames.last_mut().unwrap()
operand_stack_mut(frames) ==
    IF frames = <<>> THEN Aborted(UnwrapNone, <<>>)
    ELSE Step(frames[Len(frames)].operand_stack, 0)

\* the operands written back to the oldest frame instead of the current one
borrowed_oldest_frame(frames, r) ==
    [fault |-> r.fault,
     frames |-> IF frames = <<>> THEN frames
                ELSE [frames EXCEPT ![1].operand_stack = r.os]]

\* the frames once an operation on the borrowed operand stack has ended as r
borrowed(frames, r) ==
    [fault |-> r.fault,
     frames |-> IF frames = <<>> THEN frames
                ELSE [frames EXCEPT ![Len(frames)].operand_stack = r.os]]

\* evaluate borrowing the operand stack before it looks at the instruction
evaluate_borrowing_first(o, frames) ==
    LET stack_ref == operand_stack_mut(frames)
    IN  IF stack_ref.fault # "none"
        THEN [fault |-> stack_ref.fault, frames |-> frames]
        ELSE IF o.name \notin Handled
        THEN [fault |-> "none", frames |-> frames]
        ELSE borrowed(frames, handler(o, stack_ref.os))

\* Thread::evaluate: the arms outside Handled are empty
evaluate(o, frames) ==
    LET stack_ref == operand_stack_mut(frames)
    IN  IF o.name \notin Handled THEN [fault |-> "none", frames |-> frames]
        ELSE IF stack_ref.fault # "none"
        THEN [fault |-> stack_ref.fault, frames |-> frames]
        ELSE borrowed(frames, handler(o, stack_ref.os))

(***************************************************************************)
(* The states a caller brings a thread to with Thread::new, push_frame and *)
(* pushes on the operand stack, as the tests of thread.rs do, and the      *)
(* instructions it is given.                                               *)
(***************************************************************************)
\* most frames on a thread's stack
MaxFrames == 2
\* most instructions given to Thread::evaluate in one run
MaxEvaluated == 2
\* width of pc in bits: pc counts modulo 2^PcBits as a usize does modulo 2^64
PcBits == 3

I32s == {0, 1, -1, 250, 40000, 70000, 1763, 2487369, i32_MAX, i32_MIN}

Integers32 == {NativeValue("Integer", v) : v \in I32s}

\* one value of every other variant; Reference 0 is null
OtherValues ==
    { NativeValue("Boolean", 1), NativeValue("Byte", -6),
      NativeValue("Char", 4464), NativeValue("Short", -25536),
      NativeValue("Float", as_f32(17)), NativeValue("Long", 17),
      NativeValue("Double", -17), NativeValue("Reference", 0),
      NativeValue("Reference", 1), NativeValue("ReturnAddress", 3) }

\* the values on top: none, one of any variant, two ints, or an int next to
\* a value that is none
Tops ==
    {<<>>}
    \cup {<<v>> : v \in Integers32 \cup OtherValues}
    \cup {<<NativeValue("Integer", a), NativeValue("Integer", b)>> :
            a \in {1, -1, 1763, i32_MAX, i32_MIN},
            b \in {1, 2487369, i32_MIN}}
    \cup {<<NativeValue("Integer", 1), v>> : v \in OtherValues}
    \cup {<<v, NativeValue("Integer", 1)>> : v \in OtherValues}

\* the operands of the top frame: a top, or a value below a top that is
\* none, one value, or two ints the upper of which is 1
OperandStacks ==
    Tops
    \cup {<<NativeValue("Long", 17)>> \o top :
             top \in {t \in Tops :
                         \/ Len(t) <= 1
                         \/ /\ t[1].variant = "Integer"
                            /\ t[2] = NativeValue("Integer", 1)}}

\* a frame of a caller, with a value and a local of its own
CallerFrame ==
    [locals |-> <<NativeValue("Integer", 17)>>,
     operand_stack |-> <<NativeValue("Reference", 1)>>,
     constant_pool |-> FooPool]

\* the constant pools of the frames
FramePools == {<<>>, FooPool}

\* the frame of setup_thread! with the operands pushed
TopFrame(os) ==
    [Frame_allocate(0, Len(os), <<>>) EXCEPT !.operand_stack = os]

\* no frame, one frame, or the frame of a callee, holding at most one
\* operand, above its caller's
InitialStacks ==
    {<<>>}
    \cup {<<TopFrame(os)>> : os \in OperandStacks}
    \cup {<<CallerFrame, TopFrame(top)>> : top \in {t \in Tops : Len(t) <= 1}}

\* code arrays: return; aload_0, invokespecial #1, return
Codes == {<<177>>, <<42, 183, 0, 1, 177>>}

Ops ==
    {Op(n, 0) : n \in (Handled \ {"CheckCast"})
                      \cup {"Nop", "Return"}}
    \cup {Op("CheckCast", i) : i \in {1, 2}}

\* the decoder is not running
NoDecoder ==
    /\ source = <<>>
    /\ cp = <<>>
    /\ called = "none"
    /\ result = Ok(0, <<>>)

InitThread ==
    /\ NoDecoder
    /\ overflow_checks \in BOOLEAN
    /\ pc = 0
    /\ stack \in InitialStacks
    /\ before = stack
    /\ method_code = <<>>
    /\ at = "idle"
    /\ fault = "none"
    /\ last_op = Op("none", 0)
    /\ ret = <<>>
    /\ evaluated = 0
    /\ NoLoader
    /\ NoVfs

\* the thread can be called: it has not panicked and is not in the loop
Callable == at = "idle" /\ fault = "none"

\* stack.push_frame(Frame::allocate(..)), before the instructions are given
PushFrame ==
    /\ Callable
    /\ evaluated = 0
    /\ Len(stack) < MaxFrames
    /\ \E c \in FramePools :
           stack' = push_frame(stack, Frame_allocate(0, 0, c))
    /\ before' = stack
    /\ last_op' = Op("push_frame", 0)
    /\ UNCHANGED <<pc, method_code, at, fault, ret, evaluated, decoder_vars,
                   loader_vars, vfs_vars>>

\* stack.pop_frame()
PopFrame ==
    /\ Callable
    /\ stack' = pop_frame(stack).frames
    /\ before' = stack
    /\ fault' = pop_frame(stack).fault
    /\ ret' = pop_frame(stack).val
    /\ last_op' = Op("pop_frame", 0)
    /\ UNCHANGED <<pc, method_code, at, evaluated, decoder_vars, loader_vars,
                   vfs_vars>>

\* thread.evaluate(o)
Evaluate ==
    /\ Callable
    /\ evaluated < MaxEvaluated
    /\ \E o \in Ops :
           /\ stack' = evaluate(o, stack).frames
           /\ fault' = evaluate(o, stack).fault
           /\ last_op' = o
    /\ before' = stack
    /\ evaluated' = evaluated + 1
    /\ UNCHANGED <<pc, method_code, at, ret, decoder_vars, loader_vars,
                   vfs_vars>>

\* thread.execute() is entered on the thread as set up, to run a method
Execute ==
    /\ Callable
    /\ last_op = Op("none", 0)
    /\ method_code' \in Codes
    /\ at' = "execute"
    /\ last_op' = Op("execute", 0)
    /\ UNCHANGED <<pc, stack, before, fault, ret, evaluated, decoder_vars,
                   loader_vars, vfs_vars>>

\* one turn of the loop of Thread::execute: self.pc += 1
ExecuteStep ==
    /\ at = "execute"
    /\ fault = "none"
    /\ IF pc + 1 < 2^PcBits
       THEN pc' = pc + 1 /\ fault' = fault
       ELSE IF overflow_checks
       THEN pc' = pc /\ fault' = "attempt to add with overflow"
       ELSE pc' = 0 /\ fault' = fault
    /\ UNCHANGED <<stack, before, method_code, at, last_op, ret, evaluated,
                   decoder_vars, loader_vars, vfs_vars>>

NextThread ==
    \/ PushFrame
    \/ PopFrame
    \/ Evaluate
    \/ Execute
    \/ ExecuteStep

SpecThread == InitThread /\ [][NextThread]_vars

\* the loop of Thread::execute keeps turning while the thread runs
SpecThreadFair == SpecThread /\ WF_vars(ExecuteStep)

(***************************************************************************)
(* Properties of the thread.                                               *)
(***************************************************************************)
\* the operand stack of the current frame
TopOperands(frames) == frames[Len(frames)].operand_stack

\* the n topmost operands exist and are all of the variant
TopAre(frames, n, variant) ==
    /\ frames # <<>>
    /\ Len(TopOperands(frames)) >= n
    /\ \A i \in 1..n :
           TopOperands(frames)[Len(TopOperands(frames)) + 1 - i].variant
               = variant

\* the operand at depth i from the top, 1 for the top
Operand(frames, i) ==
    TopOperands(frames)[Len(TopOperands(frames)) + 1 - i]

\* the operands below the n topmost
Below(frames, n) ==
    SubSeq(TopOperands(frames), 1, Len(TopOperands(frames)) - n)

\* Thread::evaluate was applied last, to the instruction named
Evaluated(name) == evaluated > 0 /\ last_op.name = name

\* a + b reduced modulo 2^32 into -2^31 .. 2^31 - 1, by the sign of the
\* overflow
SumMod32(a, b) ==
    IF a >= 0 /\ b >= 0 /\ a > i32_MAX - b
    THEN (a - i32_MAX - 1) + (b - i32_MAX - 1)
    ELSE IF a < 0 /\ b < 0 /\ a < i32_MIN - b
    THEN (a + i32_MAX + 1) + (b + i32_MAX + 1)
    ELSE a + b

\* 2 * a reduced modulo 2^32
Twice(a) == SumMod32(a, a)

\* n * a reduced modulo 2^32 for a digit n of 0 .. 15: the sum of a, 2a, 4a
\* and 8a over the bits of n
DigitTimes(n, a) ==
    SumMod32(SumMod32(IF n % 2 = 1 THEN a ELSE 0,
                      IF (n \div 2) % 2 = 1 THEN Twice(a) ELSE 0),
             SumMod32(IF (n \div 4) % 2 = 1 THEN Twice(Twice(a)) ELSE 0,
                      IF n \div 8 = 1 THEN Twice(Twice(Twice(a))) ELSE 0))

RECURSIVE Horner(_, _, _)
\* a times the digits j .. 7 of the two's-complement pattern of b in base
\* 16, reduced modulo 2^32: Horner's rule from the highest digit down
Horner(a, b, j) ==
    IF j = 8 THEN 0
    ELSE SumMod32(DigitTimes((b \div 16^j) % 16, a),
                  Twice(Twice(Twice(Twice(Horner(a, b, j + 1))))))

\* a * b reduced modulo 2^32 into -2^31 .. 2^31 - 1
ProductMod32(a, b) == Horner(a, b, 0)

\* C12: with Integer(a) below Integer(b) on top, iadd (imul) pops both and
\* pushes the one Integer a + b (a * b) reduced modulo 2^32 into the signed
\* 32-bit range; the operands below stay and nothing faults
C12_WrappingArithmetic ==
    \A name \in {"IAdd", "IMul"} :
        (Evaluated(name) /\ TopAre(before, 2, "Integer")) =>
            LET a == Operand(before, 2).v
                b == Operand(before, 1).v
                r == IF name = "IAdd" THEN SumMod32(a, b)
                     ELSE ProductMod32(a, b)
            IN  /\ fault = "none"
                /\ TopOperands(stack) =
                       Append(Below(before, 2), NativeValue("Integer", r))
                /\ (name = "IAdd" /\ a = 2147483647 /\ b = 1)
                       => r = -2147483647 - 1
                /\ (name = "IMul" /\ a = 1763 /\ b = 2487369)
                       => r = 90264251

\* imul has run on 1763 and 2487369, whose product exceeds 32 bits
C12_ProductWrapped ==
    /\ Evaluated("IMul")
    /\ fault = "none"
    /\ TopAre(before, 2, "Integer")
    /\ Operand(before, 2).v = 1763
    /\ Operand(before, 1).v = 2487369
    /\ TopOperands(stack) = <<NativeValue("Integer", 90264251)>>

\* x is the one number of lo .. hi that agrees with v modulo m
Truncates(x, v, lo, hi, m) == lo <= x /\ x <= hi /\ x % m = v % m

\* C13: with Integer(v) on top, i2b, i2c, i2s and i2l replace it by a Byte
\* of the low 8 bits read as signed, a Char of the low 16 bits read as
\* unsigned, a Short of the low 16 bits read as signed, and a Long of v; the
\* depth and the operands below are unchanged and nothing faults
C13_Conversions ==
    \A name \in {"I2B", "I2C", "I2S", "I2L"} :
        (Evaluated(name) /\ TopAre(before, 1, "Integer")) =>
            LET v == Operand(before, 1).v
                x == Operand(stack, 1)
            IN  /\ fault = "none"
                /\ Len(TopOperands(stack)) = Len(TopOperands(before))
                /\ Below(stack, 1) = Below(before, 1)
                /\ name = "I2B" =>
                       /\ x.variant = "Byte"
                       /\ Truncates(x.v, v, -128, 127, 256)
                       /\ v = 250 => x.v = -6
                /\ name = "I2C" =>
                       /\ x.variant = "Char"
                       /\ Truncates(x.v, v, 0, 65535, 65536)
                       /\ v = 70000 => x.v = 4464
                /\ name = "I2S" =>
                       /\ x.variant = "Short"
                       /\ Truncates(x.v, v, -32768, 32767, 65536)
                       /\ v = 40000 => x.v = -25536
                /\ name = "I2L" =>
                       /\ x.variant = "Long"
                       /\ x.v = v

\* i2s has run on 40000, whose low 16 bits read as signed are negative
C13_ShortTruncated ==
    /\ Evaluated("I2S")
    /\ fault = "none"
    /\ TopAre(before, 1, "Integer")
    /\ Operand(before, 1).v = 40000
    /\ Operand(stack, 1) = NativeValue("Short", -25536)

\* C14: on a non-empty operand stack dup leaves the stack one deeper, its
\* two topmost values equal to the former top in variant and payload, and
\* the values below them as they were
C14_Dup ==
    (Evaluated("Dup") /\ before # <<>> /\ TopOperands(before) # <<>>) =>
        /\ fault = "none"
        /\ Len(TopOperands(stack)) = Len(TopOperands(before)) + 1
        /\ Operand(stack, 1) = Operand(before, 1)
        /\ Operand(stack, 2) = Operand(before, 1)
        /\ Below(stack, 2) = Below(before, 1)

\* dup has run on a Float above another value
C14_FloatDuplicated ==
    /\ Evaluated("Dup")
    /\ fault = "none"
    /\ before # <<>>
    /\ Len(TopOperands(before)) = 2
    /\ Operand(before, 1).variant = "Float"
    /\ Len(TopOperands(stack)) = 3
    /\ Operand(stack, 1).variant = "Float"

\* C15: aconst_null pushes Reference(0); checkcast, whatever its index,
\* while Reference(0) is on top leaves every frame and operand as it was
\* and raises no fault
C15_NullReference ==
    /\ (Evaluated("AConstNull") /\ before # <<>>) =>
           /\ fault = "none"
           /\ TopOperands(stack) =
                  Append(TopOperands(before), NativeValue("Reference", 0))
    /\ (/\ Evaluated("CheckCast")
        /\ before # <<>>
        /\ TopOperands(before) # <<>>
        /\ Operand(before, 1) = NativeValue("Reference", 0)) =>
           /\ fault = "none"
           /\ stack = before

\* checkcast #2 has run on the null that aconst_null had pushed
C15_NullCastSeen ==
    /\ Evaluated("CheckCast")
    /\ last_op.arg = 2
    /\ evaluated = 2
    /\ fault = "none"
    /\ Len(TopOperands(before)) = 1
    /\ Operand(before, 1) = NativeValue("Reference", 0)
    /\ Operand(stack, 1) = NativeValue("Reference", 0)

\* the variants of NativeValue
Variants ==
    {"Boolean", "Byte", "Char", "Short", "Integer", "Float", "Long", "Double",
     "Reference", "ReturnAddress"}

\* the panic of a handler that pops n Integers from the operands os: the
\* first operand, from the top, that is missing or is no Integer decides
PopFault(os, n) ==
    LET bad == {i \in 1..n : i > Len(os)
                             \/ os[Len(os) + 1 - i].variant # "Integer"}
        first == CHOOSE i \in bad : \A j \in bad : i <= j
    IN  IF bad = {} THEN "none"
        ELSE IF first > Len(os) THEN UnwrapNone
        ELSE "invalid type"

\* s is the sequence t or a front part of it
IsPrefix(s, t) == Len(s) <= Len(t) /\ SubSeq(t, 1, Len(s)) = s

\* how many Integers the instruction pops
IntegersPopped(name) == IF name \in {"IAdd", "IMul"} THEN 2 ELSE 1

\* p is what a typed pop of the variant from the operands os must give
PopsOnlyOwn(variant, os, p) ==
    IF os = <<>> THEN p = Aborted(UnwrapNone, <<>>)
    ELSE IF os[Len(os)].variant = variant
         THEN p = Step(SubSeq(os, 1, Len(os) - 1), os[Len(os)].v)
    ELSE p.fault = "invalid type" /\ p.val = 0 /\ IsPrefix(p.os, os)

\* C16: a pop from an empty operand stack and a typed pop of a value of
\* another variant are fatal, and nothing is pushed: iadd, imul and the i2*
\* conversions abort when an operand is missing or is no Integer, and every
\* typed pop of the operands as they stand succeeds only on its own variant
C16_PopFaults ==
    /\ (/\ evaluated > 0
        /\ last_op.name \in {"IAdd", "IMul", "I2B", "I2C", "I2D", "I2F",
                             "I2L", "I2S"}
        /\ before # <<>>
        /\ ~TopAre(before, IntegersPopped(last_op.name), "Integer")) =>
           /\ fault # "none"
           /\ fault = PopFault(TopOperands(before),
                               IntegersPopped(last_op.name))
           /\ IsPrefix(TopOperands(stack), TopOperands(before))
    /\ stack # <<>> =>
           \A variant \in Variants :
               PopsOnlyOwn(variant, TopOperands(stack),
                           pop_typed(variant, TopOperands(stack)))

\* iadd has popped its Integer from above a Long and aborted on the Long
C16_SecondOperandMismatch ==
    /\ Evaluated("IAdd")
    /\ fault = "invalid type"
    /\ Len(TopOperands(before)) = 2
    /\ Operand(before, 1).variant = "Integer"
    /\ Operand(before, 2).variant = "Long"
    /\ TopOperands(stack) = <<>>

\* C17: the interpreter loop terminates: once Thread::execute is entered on
\* a method whose code ends in a return, it is eventually over (here even
\* an abort of the thread counts as an end)
C17_ExecuteTerminates ==
    (at = "execute" /\ method_code[Len(method_code)] = 177)
        ~> (at = "idle" \/ fault # "none")

\* C18: while the interpreter loop runs, pc is an index inside the code
\* array of the method being run
C18_PcInsideCode == at = "execute" => pc < Len(method_code)

\* the frames under the top one
Callers(frames) == SubSeq(frames, 1, Len(frames) - 1)

\* C20: the call stack is LIFO: push_frame puts its frame on top of the
\* others, pop_frame returns the top frame and leaves the others, the
\* handlers reach the top frame only (current_frame_mut), and pop_frame and
\* current_frame_mut on an empty stack are fatal
C20_StackIsLifo ==
    /\ last_op.name = "push_frame" =>
           /\ fault = "none"
           /\ Len(stack) = Len(before) + 1
           /\ Callers(stack) = before
           /\ \E c \in FramePools : stack[Len(stack)] = Frame_allocate(0, 0, c)
    /\ (last_op.name = "pop_frame" /\ before # <<>>) =>
           /\ fault = "none"
           /\ ret = <<before[Len(before)]>>
           /\ stack = Callers(before)
    /\ (last_op.name = "pop_frame" /\ before = <<>>) =>
           /\ fault = UnwrapNone
           /\ stack = <<>>
    /\ (evaluated > 0 /\ last_op.name \in Handled /\ before # <<>>) =>
           /\ Len(stack) = Len(before)
           /\ Callers(stack) = Callers(before)
    /\ (evaluated > 0 /\ last_op.name \in Handled /\ before = <<>>) =>
           /\ fault = UnwrapNone
           /\ stack = <<>>

\* pop_frame has returned the frame that push_frame had put above another
C20_PushedFramePopped ==
    /\ last_op.name = "pop_frame"
    /\ fault = "none"
    /\ ret = <<Frame_allocate(0, 0, FooPool)>>
    /\ Len(before) = 2
    /\ Len(stack) = 1
    /\ stack[1] # Frame_allocate(0, 0, FooPool)

\* C21: the operand stack of a frame allocated with operand_stack_size = S
\* never grows past S: after an instruction on a frame just allocated with
\* size 0, as setup_thread!(0) and push_frame make it, the depth is still 0
C21_OperandStackBounded ==
    \A c \in FramePools :
        (/\ evaluated > 0
         /\ last_op \in Ops
         /\ before # <<>>
         /\ before[Len(before)] = Frame_allocate(0, 0, c)
         /\ fault = "none") => Len(TopOperands(stack)) <= 0

\* C22: an instruction that has no handler is a no-op: the frames, with
\* their operands and locals, are as before, pc is as Thread::new left it
\* and there is no fault, also when the thread has no frame
C22_UnhandledIsNoOp ==
    (/\ evaluated > 0
     /\ last_op \in Ops
     /\ last_op.name \notin Handled) =>
        /\ fault = "none"
        /\ stack = before
        /\ pc = 0
        /\ at = "idle"

\* return has been evaluated on a thread that has no frame
C22_ReturnWithoutFrame ==
    /\ evaluated > 0
    /\ last_op = Op("Return", 0)
    /\ before = <<>>
    /\ stack = <<>>
    /\ fault = "none"

\* how many operands the handler of the instruction pops
OperandsPopped(name) ==
    CASE name \in {"IAdd", "IMul"} -> 2
      [] name \in {"I2B", "I2C", "I2D", "I2F", "I2L", "I2S"} -> 1
      [] OTHER -> 0

\* the operands os without the n topmost, none when there are fewer
Under(os, n) == IF Len(os) < n THEN <<>> ELSE SubSeq(os, 1, Len(os) - n)

\* C29: a handler (checkcast: on a null top) changes the operand stack of
\* the top frame only: pc, the number of frames, the top frame's locals and
\* constant pool and the frames below are as before, and so are the
\* operands under those popped
C29_HandlersTouchTopOperandsOnly ==
    (/\ evaluated > 0
     /\ last_op \in Ops
     /\ last_op.name \in Handled
     /\ before # <<>>
     /\ last_op.name = "CheckCast" =>
            /\ TopOperands(before) # <<>>
            /\ Operand(before, 1) = NativeValue("Reference", 0)) =>
        /\ pc = 0
        /\ Len(stack) = Len(before)
        /\ Callers(stack) = Callers(before)
        /\ stack[Len(stack)].locals = before[Len(before)].locals
        /\ stack[Len(stack)].constant_pool
               = before[Len(before)].constant_pool
        /\ IsPrefix(Under(TopOperands(before), OperandsPopped(last_op.name)),
                    TopOperands(stack))

\* dup has run on the frame of a callee, above the frame of its caller
C29_DupAboveCaller ==
    /\ Evaluated("Dup")
    /\ fault = "none"
    /\ Len(before) = 2
    /\ before[1] = CallerFrame
    /\ Len(TopOperands(stack)) = 2

\* C30: what i2b, i2c and i2s push is an int to the next instruction: with
\* an Integer under it, iadd (imul after i2s) on the operands as the
\* conversion left them raises no fault and pushes the wrapped sum (product)
\* of the Integer and the converted value
C30_NarrowedIsInt ==
    \A name \in {"I2B", "I2C", "I2S"} :
        (/\ Evaluated(name)
         /\ fault = "none"
         /\ TopAre(before, 2, "Integer")) =>
            LET following == IF name = "I2S" THEN "IMul" ELSE "IAdd"
                r == handler(Op(following, 0), TopOperands(stack))
                a == Operand(before, 2).v
                x == Operand(stack, 1).v
            IN  /\ r.fault = "none"
                /\ r.os = Append(Below(stack, 2),
                                 NativeValue("Integer",
                                             IF following = "IMul"
                                             THEN ProductMod32(a, x)
                                             ELSE SumMod32(a, x)))

(***************************************************************************)
(* The bootstrap class loader (libjvm/src/vm/classloader/bootstrap.rs).    *)
(*                                                                         *)
(* The file system is a function from <<dir, name>> to <<>> when there is  *)
(* no file dir/name.class and to <<bytes>> when there is one.  An          *)
(* Rc<Class> is the record [rc, class]: rc tells the allocations apart (it *)
(* is the position in loaded_classes, where every Rc::new is pushed), and  *)
(* class is the Class made from the decoded class file.  The loader calls  *)
(* ClassFile::parse of the libjava crate; the decoder of libjvm modelled   *)
(* above stands for it: the loader only tells Ok, Err and a panic apart.   *)
(***************************************************************************)
\* most entries of a class path
MaxEntries == 2
\* most calls of find_or_load_class on one loader
MaxLoads == 3

Dirs == {"d1", "d2"}

ClassNames == {"A", "B"}

\* enum ClassPathEntry
ClassPathEntry(kind, path) == [kind |-> kind, path |-> path]

\* the loop over the class path in find_or_load_class: a JarFile entry is
\* unimplemented!(), and of the directories that hold the file the last one
\* is the one opened
open_class_file(fs, entries, n) ==
    LET hits == {i \in DOMAIN entries : fs[<<entries[i].path, n>>] # <<>>}
        last == CHOOSE i \in hits : \A j \in hits : j <= i
    IN  IF \E i \in DOMAIN entries : entries[i].kind = "JarFile"
        THEN [fault |-> "not implemented: jar class loading", file |-> <<>>]
        ELSE IF hits = {} THEN [fault |-> "none", file |-> <<>>]
        ELSE [fault |-> "none", file |-> fs[<<entries[last].path, n>>]]

\* Class::from
Class_from(class_file) == [class_file |-> class_file]

\* the outcome of a call of the loader: the panic if any, the value returned
\* (<<>> for None), loaded_classes after it, and whether the decoder ran
Loaded(why, val, loaded, parsed) ==
    [fault |-> why, val |-> val, loaded |-> loaded, parsed |-> parsed]

\* a new Rc of a Class
Rc_new(loaded, class) == [rc |-> Len(loaded) + 1, class |-> class]

\* find_or_load_class from the result of ClassFile::parse on
load_parsed(parse_result, loaded) ==
    CASE parse_result.res = "Panic" ->
             Loaded(parse_result.why, <<>>, loaded, TRUE)
      [] parse_result.res = "Ok" ->
             Loaded("none", <<Rc_new(loaded, Class_from(parse_result.val))>>,
                    Append(loaded, Rc_new(loaded, Class_from(parse_result.val))),
                    TRUE)
      [] OTHER -> Loaded("none", <<>>, loaded, TRUE)

\* find_or_load_class from the end of the loop over the class path on
load_opened(opened, loaded, oc) ==
    IF opened.fault # "none" THEN Loaded(opened.fault, <<>>, loaded, FALSE)
    ELSE IF opened.file = <<>> THEN Loaded("none", <<>>, loaded, FALSE)
    ELSE load_parsed(ClassFile_parse(oc, opened.file[1]), loaded)

\* BootstrapClassLoader::find_or_load_class
find_or_load_class(fs, entries, loaded, oc, n) ==
    load_opened(open_class_file(fs, entries, n), loaded, oc)

\* a loader: its loaded_classes, the calls of find_or_load_class so far (the
\* name asked for, whether its file was handed to ClassFile::parse, and the
\* value returned: <<>> or <<handle>>), and the panic that ended it if any
Loader(loaded, calls, why) ==
    [loaded_classes |-> loaded, calls |-> calls, fault |-> why]

\* the loader l after its call for n has ended as r
load_called(l, n, r) ==
    Loader(r.loaded,
           Append(l.calls, [name |-> n, parsed |-> r.parsed, val |-> r.val]),
           r.fault)

\* the file system holding the files given as <<dir, name, bytes>>
FileSystem(files) ==
    [p \in Dirs \X ClassNames |->
        IF \E f \in files : <<f[1], f[2]>> = p
        THEN <<(CHOOSE f \in files : <<f[1], f[2]>> = p)[3]>>
        ELSE <<>>]

\* no file; one class; the class in both directories; a file that is no
\* class next to one that is; a class file announcing an empty pool
FileSystems ==
    { FileSystem({}),
      FileSystem({<<"d1", "A", V_Minimal>>}),
      FileSystem({<<"d1", "A", V_Minimal>>, <<"d2", "A", V_Field>>}),
      FileSystem({<<"d1", "A", <<1, 2, 3>>>>, <<"d1", "B", V_Method>>}),
      FileSystem({<<"d1", "A", <<202, 254, 186, 190, 0, 0, 0, 61, 0, 0>>>>,
                  <<"d2", "B", V_Minimal>>}) }

ClassPathEntries ==
    {ClassPathEntry("Dir", d) : d \in Dirs}
    \cup {ClassPathEntry("JarFile", "rt.jar")}

\* BootstrapClassLoader::new(fs, class_path)
InitLoader ==
    /\ NoDecoder
    /\ NoThread
    /\ NoVfs
    /\ overflow_checks \in BOOLEAN
    /\ loader_fs \in FileSystems
    /\ class_path \in {<<>>, <<ClassPathEntry("Dir", "d1")>>}
    /\ loader = Loader(<<>>, <<>>, "none")

\* class_loader.add_entry(e)
AddEntry ==
    /\ loader.fault = "none"
    /\ Len(class_path) < MaxEntries
    /\ \E e \in ClassPathEntries : class_path' = Append(class_path, e)
    /\ UNCHANGED <<loader_fs, loader, decoder_vars, thread_vars, vfs_vars>>

\* class_loader.find_or_load_class(n)
FindOrLoadClass ==
    /\ loader.fault = "none"
    /\ Len(loader.calls) < MaxLoads
    /\ \E n \in ClassNames :
           loader' = load_called(loader, n,
                            find_or_load_class(loader_fs, class_path,
                                               loader.loaded_classes,
                                               overflow_checks, n))
    /\ UNCHANGED <<loader_fs, class_path, decoder_vars, thread_vars,
                   vfs_vars>>

NextLoader ==
    \/ AddEntry
    \/ FindOrLoadClass

SpecLoader == InitLoader /\ [][NextLoader]_vars

(***************************************************************************)
(* Properties of the class loader.                                         *)
(***************************************************************************)
\* C19: over any calls of find_or_load_class on one loader, a call for a
\* name that an earlier call returned a handle for does not run the decoder
\* again and returns that same handle, and loaded_classes never holds two
\* entries of one class (so never two of one name)
C19_DecodedOncePerName ==
    /\ \A i, j \in DOMAIN loader.calls :
           (/\ i < j
            /\ loader.calls[i].name = loader.calls[j].name
            /\ loader.calls[i].val # <<>>)
               => /\ ~loader.calls[j].parsed
                  /\ loader.calls[j].val = loader.calls[i].val
    /\ \A i, j \in DOMAIN loader.loaded_classes :
           loader.loaded_classes[i].class = loader.loaded_classes[j].class
               => i = j

(***************************************************************************)
(* The file systems of libvfs (libvfs/src/mem.rs, basepath.rs).            *)
(*                                                                         *)
(* A path is the sequence of its components.  The in-memory backend is the *)
(* record [files, heap]: files is its PrefixMap, a function from the paths *)
(* that have an entry to the entry, and heap holds the byte vectors the    *)
(* file entries and the open files share (an Arc<Mutex<Vec<u8>>> is its    *)
(* position in heap).  An operation returns the record [res, m, val]: res  *)
(* is "Ok", the ErrorKind of the error, or "Panic"; m is the backend after *)
(* it; val is <<>>, or <<file>> for an opened or created file.             *)
(***************************************************************************)
\* enum InMemFsEntry
InMemFsEntry(kind, data) == [kind |-> kind, data |-> data]

\* PrefixMap::insert
PrefixMap_insert(map, key, value) ==
    [k \in DOMAIN map \cup {key} |-> IF k = key THEN value ELSE map[k]]

\* PrefixMap::remove
PrefixMap_remove(map, key) == [k \in DOMAIN map \ {key} |-> map[k]]

IoResult(res, m, val) == [res |-> res, m |-> m, val |-> val]

\* InMemoryBackend::new
InMemoryBackend_new == [files |-> <<>>, heap |-> <<>>]

\* InMemFile::from
InMemFile_from(data) == [data |-> data, pointer |-> 0]

\* InMemoryBackend::open with find_data
InMemoryBackend_open(m, path) ==
    IF path \notin DOMAIN m.files THEN IoResult("NotFound", m, <<>>)
    ELSE IF m.files[path].kind = "Dir" THEN IoResult("NotFound", m, <<>>)
    ELSE IoResult("Ok", m, <<InMemFile_from(m.files[path].data)>>)

InMemoryBackend_exists(m, path) == path \in DOMAIN m.files

\* create that puts the new file in place of an entry the path has
InMemoryBackend_create_over(m, path) ==
    IoResult("Ok",
             [files |-> PrefixMap_insert(m.files, path,
                                         InMemFsEntry("File", Len(m.heap) + 1)),
              heap |-> Append(m.heap, <<>>)],
             <<InMemFile_from(Len(m.heap) + 1)>>)

InMemoryBackend_create(m, path) ==
    IF path \in DOMAIN m.files THEN IoResult("AlreadyExists", m, <<>>)
    ELSE IoResult("Ok",
                  [files |-> PrefixMap_insert(m.files, path,
                                 InMemFsEntry("File", Len(m.heap) + 1)),
                   heap |-> Append(m.heap, <<>>)],
                  <<InMemFile_from(Len(m.heap) + 1)>>)

InMemoryBackend_create_dir(m, path) ==
    IF path \in DOMAIN m.files THEN IoResult("AlreadyExists", m, <<>>)
    ELSE IoResult("Ok",
                  [m EXCEPT !.files = PrefixMap_insert(m.files, path,
                                          InMemFsEntry("Dir", 0))],
                  <<>>)

\* move that leaves the entry at its old path as well
InMemoryBackend_move_copying(m, from, to) ==
    IF from \notin DOMAIN m.files THEN IoResult("AlreadyExists", m, <<>>)
    ELSE IoResult("Ok",
                  [m EXCEPT !.files = PrefixMap_insert(m.files, to,
                                                       m.files[from])],
                  <<>>)

\* InMemoryBackend::move: the entry is removed, then inserted at to
InMemoryBackend_move(m, from, to) ==
    IF from \notin DOMAIN m.files THEN IoResult("AlreadyExists", m, <<>>)
    ELSE IoResult("Ok",
                  [m EXCEPT !.files =
                       PrefixMap_insert(PrefixMap_remove(m.files, from), to,
                                        m.files[from])],
                  <<>>)

InMemoryBackend_remove_file(m, path) ==
    IF path \notin DOMAIN m.files THEN IoResult("AlreadyExists", m, <<>>)
    ELSE IF m.files[path].kind = "Dir" THEN IoResult("InvalidInput", m, <<>>)
    ELSE IoResult("Ok", [m EXCEPT !.files = PrefixMap_remove(m.files, path)],
                  <<>>)

InMemoryBackend_remove_dir(m, path) ==
    IF path \notin DOMAIN m.files THEN IoResult("InvalidInput", m, <<>>)
    ELSE IF m.files[path].kind = "File" THEN IoResult("InvalidInput", m, <<>>)
    ELSE IoResult("Ok", [m EXCEPT !.files = PrefixMap_remove(m.files, path)],
                  <<>>)

(***************************************************************************)
(* An open file is the record [data, pointer].  An operation on it returns *)
(* [res, file, m, val]: the file and the backend after it, and in val the  *)
(* bytes read, or <<n>> for the count written or the position sought.      *)
(***************************************************************************)
FileResult(res, file, m, val) ==
    [res |-> res, file |-> file, m |-> m, val |-> val]

\* std::cmp::min
min(a, b) == IF a <= b THEN a ELSE b

\* InMemFile::read into a buffer of buf_len bytes; data.len() - ptr
\* underflows when the pointer is past the end: a checked build aborts at
\* the subtraction, an unchecked one at the slice ptr..ptr + to_read
InMemFile_read(file, m, buf_len) ==
    IF file.pointer > Len(m.heap[file.data])
    THEN FileResult("Panic", file, m, <<>>)
    ELSE FileResult("Ok",
                    [file EXCEPT !.pointer =
                         @ + min(buf_len, Len(m.heap[file.data]) - @)],
                    m,
                    SubSeq(m.heap[file.data], file.pointer + 1,
                           file.pointer
                               + min(buf_len,
                                     Len(m.heap[file.data]) - file.pointer)))

\* Read::read_to_end: read is called until it returns 0 bytes
read_to_end(file, m) == InMemFile_read(file, m, Len(m.heap[file.data]))

\* InMemFile::write: every byte of buf is pushed at the end of the data and
\* the pointer stays
InMemFile_write(file, m, buf) ==
    FileResult("Ok", file, [m EXCEPT !.heap[file.data] = @ \o buf],
               <<Len(buf)>>)

\* enum SeekFrom
SeekFrom(whence, offset) == [whence |-> whence, offset |-> offset]

\* the pointer InMemFile::seek computes
current_pointer(file, m, pos) ==
    CASE pos.whence = "Start" -> pos.offset
      [] pos.whence = "End" -> Len(m.heap[file.data]) + pos.offset
      [] pos.whence = "Current" -> file.pointer + pos.offset

InMemFile_seek(file, m, pos) ==
    IF current_pointer(file, m, pos) < 0
    THEN FileResult("InvalidInput", file, m, <<>>)
    ELSE FileResult("Ok",
                    [file EXCEPT !.pointer = current_pointer(file, m, pos)],
                    m, <<current_pointer(file, m, pos)>>)

(***************************************************************************)
(* The base-path file system over an in-memory one.                        *)
(***************************************************************************)
\* PathBuf::push: an absolute path, one that begins with the root "/",
\* replaces the path it is pushed on
PathBuf_push(base, path) ==
    IF path # <<>> /\ path[1] = "/" THEN path ELSE base \o path

\* BasePathBackend::relativize
relativize(base_path, path) == PathBuf_push(base_path, path)

\* impl FileBackend for BasePathBackend over the backend m: the path the
\* underlying file system is called with is relativized in open, create and
\* create_dir, and is the caller's own in move, remove_file and remove_dir
BasePathBackend_call(base_path, m, name, path, to) ==
    CASE name = "open" ->
             InMemoryBackend_open(m, relativize(base_path, path))
      [] name = "create" ->
             InMemoryBackend_create(m, relativize(base_path, path))
      [] name = "create_dir" ->
             InMemoryBackend_create_dir(m, relativize(base_path, path))
      [] name = "move" -> InMemoryBackend_move(m, path, to)
      [] name = "remove_file" -> InMemoryBackend_remove_file(m, path)
      [] name = "remove_dir" -> InMemoryBackend_remove_dir(m, path)

\* the paths BasePathBackend hands to the underlying file system
BasePathBackend_paths(base_path, name, path, to) ==
    CASE name \in {"open", "create", "create_dir"} ->
             {relativize(base_path, path)}
      [] name = "move" -> {path, to}
      [] name \in {"remove_file", "remove_dir"} -> {path}

(***************************************************************************)
(* The in-memory file system as a state machine.  vfs is the record        *)
(*   m       the backend                                                   *)
(*   handle  <<>>, or <<file>> for the file opened or created last         *)
(*   origin  "create" or "open": the call that made the handle             *)
(*   fresh   TRUE while nothing was done through the handle                *)
(*   before  the backend before the last call                              *)
(*   last    the last call: its name, its paths, its result and value      *)
(* and, to state the contracts against,                                    *)
(*   created the paths created and not removed since, moved whether a move *)
(*           has succeeded                                                 *)
(*   image   for every byte vector, the bytes a file written at the        *)
(*           positions of the writes would hold, cursor the position of    *)
(*           the handle in it, and others whether it was written through   *)
(*           a handle that open returned or past the end of its image      *)
(***************************************************************************)
MaxFiles == 3
MaxBytes == 2

MemPaths == {<<"a">>, <<"b">>}

FilePaths == {<<"a">>}

Bufs == {<<1>>, <<2>>, <<1, 2>>}

Seeks ==
    {SeekFrom("Start", 0), SeekFrom("Start", 1), SeekFrom("Start", MaxBytes + 1),
     SeekFrom("End", 0), SeekFrom("End", -1),
     SeekFrom("Current", 1), SeekFrom("Current", -1)}

Call(name, path, to, res, val, fresh) ==
    [name |-> name, path |-> path, to |-> to, res |-> res, val |-> val,
     fresh |-> fresh]

\* the bytes of a file after buf is written at position start: a gap
\* between the end and start is filled with zeros
Overwrite(img, start, buf) ==
    [i \in 1..(IF Len(img) > start + Len(buf) THEN Len(img)
               ELSE start + Len(buf)) |->
        IF i > start /\ i <= start + Len(buf) THEN buf[i - start]
        ELSE IF i <= Len(img) THEN img[i]
        ELSE 0]

\* the position a seek leaves in a file of length len with position cur
Sought(len, cur, pos) ==
    CASE pos.whence = "Start" -> pos.offset
      [] pos.whence = "End" -> len + pos.offset
      [] pos.whence = "Current" -> cur + pos.offset

InitMem ==
    /\ NoDecoder
    /\ NoThread
    /\ NoLoader
    /\ overflow_checks \in BOOLEAN
    /\ vfs = [m |-> InMemoryBackend_new, handle |-> <<>>, origin |-> "none",
              fresh |-> FALSE, before |-> InMemoryBackend_new,
              last |-> Call("new", <<>>, <<>>, "Ok", <<>>, FALSE),
              created |-> {}, moved |-> FALSE,
              image |-> <<>>, cursor |-> 0, others |-> <<>>]

\* the state after a call on the backend that returned r
backend_called(v, name, path, to, r, created, moved) ==
    [v EXCEPT !.m = r.m, !.before = v.m,
              !.last = Call(name, path, to, r.res, <<>>, FALSE),
              !.created = created, !.moved = moved]

\* the state after open or create returned r
handle_made(v, name, path, r, created) ==
    [v EXCEPT !.m = r.m, !.before = v.m,
              !.last = Call(name, path, <<>>, r.res, <<>>, FALSE),
              !.created = created,
              !.handle = IF r.res = "Ok" THEN r.val ELSE @,
              !.origin = IF r.res = "Ok" THEN name ELSE @,
              !.fresh = IF r.res = "Ok" THEN TRUE ELSE @,
              !.cursor = IF r.res = "Ok" THEN 0 ELSE @,
              !.image = IF Len(r.m.heap) > Len(@) THEN Append(@, <<>>) ELSE @,
              !.others = IF Len(r.m.heap) > Len(@) THEN Append(@, FALSE) ELSE @]

\* the state after a call on the handle returned r
file_called(v, name, r, image, cursor, others) ==
    [v EXCEPT !.m = r.m, !.before = v.m,
              !.last = Call(name, <<>>, <<>>, r.res, r.val, v.fresh),
              !.handle = <<r.file>>, !.fresh = FALSE,
              !.image = image, !.cursor = cursor, !.others = others]

Running == vfs.last.res # "Panic"

MemExists(p) ==
    /\ Running
    /\ vfs' = [vfs EXCEPT !.before = vfs.m,
                          !.last = Call("exists", p, <<>>, "Ok",
                                        <<InMemoryBackend_exists(vfs.m, p)>>,
                                        FALSE)]
    /\ UNCHANGED <<decoder_vars, thread_vars, loader_vars>>

MemCreate(p) ==
    /\ Running
    /\ Len(vfs.m.heap) < MaxFiles
    /\ vfs' = handle_made(vfs, "create", p, InMemoryBackend_create(vfs.m, p),
                          IF InMemoryBackend_create(vfs.m, p).res = "Ok"
                          THEN vfs.created \cup {p} ELSE vfs.created)
    /\ UNCHANGED <<decoder_vars, thread_vars, loader_vars>>

MemCreateDir(p) ==
    /\ Running
    /\ vfs' = backend_called(vfs, "create_dir", p, <<>>,
                             InMemoryBackend_create_dir(vfs.m, p),
                             IF InMemoryBackend_create_dir(vfs.m, p).res = "Ok"
                             THEN vfs.created \cup {p} ELSE vfs.created,
                             vfs.moved)
    /\ UNCHANGED <<decoder_vars, thread_vars, loader_vars>>

MemMove(from, to) ==
    /\ Running
    /\ vfs' = backend_called(vfs, "move", from, to,
                             InMemoryBackend_move(vfs.m, from, to),
                             vfs.created,
                             vfs.moved
                                 \/ InMemoryBackend_move(vfs.m, from, to).res
                                        = "Ok")
    /\ UNCHANGED <<decoder_vars, thread_vars, loader_vars>>

MemRemoveFile(p) ==
    /\ Running
    /\ vfs' = backend_called(vfs, "remove_file", p, <<>>,
                             InMemoryBackend_remove_file(vfs.m, p),
                             IF InMemoryBackend_remove_file(vfs.m, p).res = "Ok"
                             THEN vfs.created \ {p} ELSE vfs.created,
                             vfs.moved)
    /\ UNCHANGED <<decoder_vars, thread_vars, loader_vars>>

MemRemoveDir(p) ==
    /\ Running
    /\ vfs' = backend_called(vfs, "remove_dir", p, <<>>,
                             InMemoryBackend_remove_dir(vfs.m, p),
                             IF InMemoryBackend_remove_dir(vfs.m, p).res = "Ok"
                             THEN vfs.created \ {p} ELSE vfs.created,
                             vfs.moved)
    /\ UNCHANGED <<decoder_vars, thread_vars, loader_vars>>

MemOpen(p) ==
    /\ Running
    /\ vfs' = handle_made(vfs, "open", p, InMemoryBackend_open(vfs.m, p),
                          vfs.created)
    /\ UNCHANGED <<decoder_vars, thread_vars, loader_vars>>

FileRead(n) ==
    /\ Running
    /\ vfs.handle # <<>>
    /\ vfs' = file_called(vfs, "read",
                          InMemFile_read(vfs.handle[1], vfs.m, n),
                          vfs.image,
                          vfs.cursor
                              + min(n, IF vfs.cursor
                                           > Len(vfs.image[vfs.handle[1].data])
                                       THEN 0
                                       ELSE Len(vfs.image[vfs.handle[1].data])
                                                - vfs.cursor),
                          vfs.others)
    /\ UNCHANGED <<decoder_vars, thread_vars, loader_vars>>

FileReadToEnd ==
    /\ Running
    /\ vfs.handle # <<>>
    /\ vfs' = file_called(vfs, "read_to_end",
                          read_to_end(vfs.handle[1], vfs.m),
                          vfs.image,
                          IF vfs.cursor > Len(vfs.image[vfs.handle[1].data])
                          THEN vfs.cursor
                          ELSE Len(vfs.image[vfs.handle[1].data]),
                          vfs.others)
    /\ UNCHANGED <<decoder_vars, thread_vars, loader_vars>>

FileWrite(buf) ==
    /\ Running
    /\ vfs.handle # <<>>
    /\ Len(vfs.m.heap[vfs.handle[1].data]) + Len(buf) <= MaxBytes
    /\ vfs' = file_called(vfs, "write",
                          InMemFile_write(vfs.handle[1], vfs.m, buf),
                          [vfs.image EXCEPT ![vfs.handle[1].data] =
                               Overwrite(@, vfs.cursor, buf)],
                          vfs.cursor + Len(buf),
                          [vfs.others EXCEPT ![vfs.handle[1].data] =
                               \/ @
                               \/ vfs.origin = "open"
                               \/ vfs.cursor
                                      > Len(vfs.image[vfs.handle[1].data])])
    /\ UNCHANGED <<decoder_vars, thread_vars, loader_vars>>

FileSeek(pos) ==
    /\ Running
    /\ vfs.handle # <<>>
    /\ current_pointer(vfs.handle[1], vfs.m, pos) <= MaxBytes + 1
    /\ Sought(Len(vfs.image[vfs.handle[1].data]), vfs.cursor, pos)
           \in 0..(MaxBytes + 1)
    /\ vfs' = file_called(vfs, "seek",
                          InMemFile_seek(vfs.handle[1], vfs.m, pos),
                          vfs.image,
                          IF InMemFile_seek(vfs.handle[1], vfs.m, pos).res
                                 # "Ok"
                          THEN vfs.cursor
                          ELSE Sought(Len(vfs.image[vfs.handle[1].data]),
                                      vfs.cursor, pos),
                          vfs.others)
    /\ UNCHANGED <<decoder_vars, thread_vars, loader_vars>>

NextMem ==
    \/ \E p \in MemPaths : MemExists(p)
    \/ \E p \in MemPaths : MemCreate(p)
    \/ \E p \in MemPaths : MemCreateDir(p)
    \/ \E from \in MemPaths, to \in MemPaths : MemMove(from, to)
    \/ \E p \in MemPaths : MemRemoveFile(p)
    \/ \E p \in MemPaths : MemRemoveDir(p)

\* the calls on the backend
SpecMem == InitMem /\ [][NextMem]_vars

NextFile ==
    \/ \E p \in FilePaths : MemCreate(p)
    \/ \E p \in FilePaths : MemOpen(p)
    \/ \E n \in 1..MaxBytes : FileRead(n)
    \/ FileReadToEnd
    \/ \E buf \in Bufs : FileWrite(buf)
    \/ \E pos \in Seeks : FileSeek(pos)

\* the calls on the files of the backend
SpecFile == InitMem /\ [][NextFile]_vars

\* the backends m and n hold the same entry, or none, at path p
SameAt(m, n, p) ==
    /\ (p \in DOMAIN m.files) = (p \in DOMAIN n.files)
    /\ p \in DOMAIN m.files => m.files[p] = n.files[p]

\* C23: over create, create_dir, remove_file and remove_dir, a path exists
\* exactly when it was created and not removed since, and exists answers
\* so; create and create_dir on a path that exists fail with AlreadyExists
\* and change nothing; remove_file on a missing path or a directory and
\* remove_dir on a missing path or a file fail and change nothing.
C23_ExistsTracksCreateRemove ==
    /\ ~vfs.moved =>
           \A p \in MemPaths :
               InMemoryBackend_exists(vfs.m, p) = (p \in vfs.created)
    /\ vfs.last.name = "exists" /\ ~vfs.moved =>
           vfs.last.val = <<vfs.last.path \in vfs.created>>
    /\ vfs.last.name \in {"create", "create_dir"}
           /\ InMemoryBackend_exists(vfs.before, vfs.last.path) =>
           vfs.last.res = "AlreadyExists" /\ vfs.m = vfs.before
    /\ vfs.last.name = "remove_file"
           /\ (\/ ~InMemoryBackend_exists(vfs.before, vfs.last.path)
               \/ vfs.before.files[vfs.last.path].kind = "Dir") =>
           vfs.last.res # "Ok" /\ vfs.m = vfs.before
    /\ vfs.last.name = "remove_dir"
           /\ (\/ ~InMemoryBackend_exists(vfs.before, vfs.last.path)
               \/ vfs.before.files[vfs.last.path].kind = "File") =>
           vfs.last.res # "Ok" /\ vfs.m = vfs.before

\* create fails on a directory after a file was created and removed
C23_CreateOnExisting ==
    /\ vfs.last.name = "create"
    /\ vfs.last.res = "AlreadyExists"
    /\ ~vfs.moved
    /\ vfs.created = {vfs.last.path}
    /\ vfs.m.files[vfs.last.path].kind = "Dir"
    /\ Len(vfs.m.heap) > 0

\* C24, as stated: move(from, to) with from existing makes exists(from)
\* false and exists(to) true, the entry at to is the one formerly at from,
\* and every other path is unchanged; move with from missing fails and
\* changes nothing.
C24_MoveAsStated ==
    vfs.last.name = "move" =>
        IF InMemoryBackend_exists(vfs.before, vfs.last.path)
        THEN /\ vfs.last.res = "Ok"
             /\ ~InMemoryBackend_exists(vfs.m, vfs.last.path)
             /\ InMemoryBackend_exists(vfs.m, vfs.last.to)
             /\ vfs.m.files[vfs.last.to] = vfs.before.files[vfs.last.path]
             /\ \A p \in MemPaths \ {vfs.last.path, vfs.last.to} :
                    SameAt(vfs.m, vfs.before, p)
             /\ vfs.m.heap = vfs.before.heap
        ELSE vfs.last.res # "Ok" /\ vfs.m = vfs.before

\* C24, amended: the same for from # to, the entry to had, if any, being
\* replaced; move(p, p) with p existing succeeds and changes nothing.
C24_Move ==
    vfs.last.name = "move" =>
        IF InMemoryBackend_exists(vfs.before, vfs.last.path)
        THEN /\ vfs.last.res = "Ok"
             /\ vfs.last.path # vfs.last.to =>
                    ~InMemoryBackend_exists(vfs.m, vfs.last.path)
             /\ vfs.last.path = vfs.last.to => vfs.m = vfs.before
             /\ InMemoryBackend_exists(vfs.m, vfs.last.to)
             /\ vfs.m.files[vfs.last.to] = vfs.before.files[vfs.last.path]
             /\ \A p \in MemPaths \ {vfs.last.path, vfs.last.to} :
                    SameAt(vfs.m, vfs.before, p)
             /\ vfs.m.heap = vfs.before.heap
        ELSE vfs.last.res # "Ok" /\ vfs.m = vfs.before

\* a file is moved onto a directory and replaces it
C24_FileMovedOverDir ==
    /\ vfs.last.name = "move"
    /\ vfs.last.res = "Ok"
    /\ vfs.last.path # vfs.last.to
    /\ InMemoryBackend_exists(vfs.before, vfs.last.to)
    /\ vfs.before.files[vfs.last.to].kind = "Dir"
    /\ vfs.m.files[vfs.last.to].kind = "File"
    /\ ~InMemoryBackend_exists(vfs.m, vfs.last.path)

\* C25: reading to the end through a freshly opened handle of a path
\* returns the bytes written through the created handle, each at the
\* position it was written to: a write begins where the one before it
\* ended or where a seek has put the handle.
C25_ReadBackWritten ==
    /\ vfs.last.name = "read_to_end"
    /\ vfs.last.fresh
    /\ vfs.origin = "open"
    /\ ~vfs.others[vfs.handle[1].data]
    => /\ vfs.last.res = "Ok"
       /\ vfs.last.val = vfs.image[vfs.handle[1].data]

(***************************************************************************)
(* The base-path file system as a state machine: vfs is the record of the  *)
(* base path, the underlying in-memory backend m, the backend before the   *)
(* last call, and the last call with the paths it handed to the backend.   *)
(***************************************************************************)
BasePath == <<"base">>

\* the paths the callers pass: relative ones and an absolute one
CallerPaths == {<<"a">>, <<"d">>, <<"/", "a">>}

\* a backend with a file and a directory below the base path and a file
\* and a directory of the same names beside it
Populated ==
    [files |->
         [p \in {<<"a">>, <<"d">>, <<"base", "a">>, <<"base", "d">>} |->
              IF p = <<"a">> THEN InMemFsEntry("File", 1)
              ELSE IF p = <<"base", "a">> THEN InMemFsEntry("File", 2)
              ELSE InMemFsEntry("Dir", 0)],
     heap |-> <<<<1>>, <<2>>>>]

BaseCall(name, path, to, res, touched) ==
    [name |-> name, path |-> path, to |-> to, res |-> res,
     touched |-> touched]

\* FileSystem::new_base_path_fs(FileSystem::new_in_memory_fs(), "base")
InitBase ==
    /\ NoDecoder
    /\ NoThread
    /\ NoLoader
    /\ overflow_checks \in BOOLEAN
    /\ \E m \in {InMemoryBackend_new, Populated} :
           vfs = [base_path |-> BasePath, m |-> m, before |-> m,
                  last |-> BaseCall("new", <<>>, <<>>, "Ok", {})]

base_called(v, name, path, to, r) ==
    [v EXCEPT !.m = r.m, !.before = v.m,
              !.last = BaseCall(name, path, to, r.res,
                                BasePathBackend_paths(v.base_path, name, path,
                                                      to))]

BaseOpen(p) ==
    /\ vfs' = base_called(vfs, "open", p, <<>>,
                          BasePathBackend_call(vfs.base_path, vfs.m, "open", p,
                                               <<>>))
    /\ UNCHANGED <<decoder_vars, thread_vars, loader_vars>>

BaseCreate(p) ==
    /\ Len(vfs.m.heap) < MaxFiles
    /\ vfs' = base_called(vfs, "create", p, <<>>,
                          BasePathBackend_call(vfs.base_path, vfs.m, "create",
                                               p, <<>>))
    /\ UNCHANGED <<decoder_vars, thread_vars, loader_vars>>

BaseCreateDir(p) ==
    /\ vfs' = base_called(vfs, "create_dir", p, <<>>,
                          BasePathBackend_call(vfs.base_path, vfs.m,
                                               "create_dir", p, <<>>))
    /\ UNCHANGED <<decoder_vars, thread_vars, loader_vars>>

BaseMove(from, to) ==
    /\ vfs' = base_called(vfs, "move", from, to,
                          BasePathBackend_call(vfs.base_path, vfs.m, "move",
                                               from, to))
    /\ UNCHANGED <<decoder_vars, thread_vars, loader_vars>>

BaseRemoveFile(p) ==
    /\ vfs' = base_called(vfs, "remove_file", p, <<>>,
                          BasePathBackend_call(vfs.base_path, vfs.m,
                                               "remove_file", p, <<>>))
    /\ UNCHANGED <<decoder_vars, thread_vars, loader_vars>>

BaseRemoveDir(p) ==
    /\ vfs' = base_called(vfs, "remove_dir", p, <<>>,
                          BasePathBackend_call(vfs.base_path, vfs.m,
                                               "remove_dir", p, <<>>))
    /\ UNCHANGED <<decoder_vars, thread_vars, loader_vars>>

NextBase ==
    \/ \E p \in CallerPaths : BaseOpen(p)
    \/ \E p \in CallerPaths : BaseCreate(p)
    \/ \E p \in CallerPaths : BaseCreateDir(p)
    \/ \E from \in CallerPaths, to \in CallerPaths : BaseMove(from, to)
    \/ \E p \in CallerPaths : BaseRemoveFile(p)
    \/ \E p \in CallerPaths : BaseRemoveDir(p)

SpecBase == InitBase /\ [][NextBase]_vars

\* path begins with the components of base
StartsWith(path, base) ==
    Len(path) >= Len(base) /\ SubSeq(path, 1, Len(base)) = base

\* C26: every operation of the base-path file system reaches the
\* underlying file system at base_path joined with the path of the caller,
\* and one called with relative paths changes no entry of the underlying
\* file system outside base_path.
C26_StaysBelowBasePath ==
    vfs.last.name # "new" =>
        /\ vfs.last.touched
               = {relativize(vfs.base_path, q) :
                      q \in {vfs.last.path}
                                \cup (IF vfs.last.name = "move"
                                      THEN {vfs.last.to} ELSE {})}
        /\ vfs.last.path[1] # "/" /\ (vfs.last.to = <<>> \/ vfs.last.to[1] # "/")
               => \A q \in DOMAIN vfs.m.files \cup DOMAIN vfs.before.files :
                      ~StartsWith(q, vfs.base_path)
                          => SameAt(vfs.m, vfs.before, q)

(***************************************************************************)
(* The copy-on-write file system (libvfs/src/copy_on_write.rs) over an     *)
(* in-memory fallback.  The backend is the record [deleted_paths, layer,   *)
(* fallback]; a file of it is [where, underlying, path, writable], where   *)
(* names the backend, "layer" or "fallback", that holds the bytes of the   *)
(* underlying file.  An operation on a file returns [res, h, c, val]: the  *)
(* file and the backend after it.                                          *)
(***************************************************************************)
\* struct CopyOnWriteFile
CopyOnWriteFile(where, underlying, path, writable) ==
    [where |-> where, underlying |-> underlying, path |-> path,
     writable |-> writable]

CopyOnWriteBackend_new(underlying) ==
    [deleted_paths |-> {}, layer |-> InMemoryBackend_new,
     fallback |-> underlying]

\* the result of CopyOnWriteBackend::open when the backend named where
\* answered opened: an error is passed on by the ? operator
cow_opened(c, where, opened, path) ==
    IF opened.res # "Ok" THEN IoResult(opened.res, c, <<>>)
    ELSE IoResult("Ok", c,
                  <<CopyOnWriteFile(where, opened.val[1], path,
                                    where = "layer")>>)

CopyOnWriteBackend_open(c, path) ==
    IF path \in c.deleted_paths THEN IoResult("NotFound", c, <<>>)
    ELSE IF InMemoryBackend_exists(c.layer, path)
    THEN cow_opened(c, "layer", InMemoryBackend_open(c.layer, path), path)
    ELSE cow_opened(c, "fallback", InMemoryBackend_open(c.fallback, path),
                    path)

CopyOnWriteBackend_exists(c, path) ==
    /\ path \notin c.deleted_paths
    /\ \/ InMemoryBackend_exists(c.layer, path)
       \/ InMemoryBackend_exists(c.fallback, path)

\* the result of create once the layer answered created: the file returned
\* is the file of the layer
cow_created(c, created, path) ==
    IF created.res # "Ok" THEN IoResult(created.res, c, <<>>)
    ELSE IoResult("Ok",
                  [c EXCEPT !.deleted_paths = @ \ {path}, !.layer = created.m],
                  <<CopyOnWriteFile("layer", created.val[1], path, TRUE)>>)

CopyOnWriteBackend_create(c, path) ==
    IF CopyOnWriteBackend_exists(c, path)
    THEN IoResult("AlreadyExists", c, <<>>)
    ELSE cow_created(c, InMemoryBackend_create(c.layer, path), path)

CopyOnWriteBackend_create_dir(c, path) ==
    IF CopyOnWriteBackend_exists(c, path)
    THEN IoResult("AlreadyExists", c, <<>>)
    ELSE IoResult(InMemoryBackend_create_dir(c.layer, path).res,
                  [c EXCEPT !.layer =
                       InMemoryBackend_create_dir(c.layer, path).m],
                  <<>>)

CowResult(res, h, c, val) == [res |-> res, h |-> h, c |-> c, val |-> val]

\* std::io::copy of the file reader of the backend m, rewound to the start,
\* into the file destination of the layer: the layer after it
copied(reader, m, destination, layer) ==
    InMemFile_write(destination, layer,
                    read_to_end(InMemFile_seek(reader, m,
                                               SeekFrom("Start", 0)).file,
                                m).val).m

\* copy_into_layer once the layer answered created to create(path); the
\* answer is unwrapped
copy_created(h, c, created) ==
    IF created.res # "Ok" THEN CowResult("Panic", h, c, <<>>)
    ELSE CowResult("Ok",
                   [h EXCEPT !.where = "layer",
                             !.underlying =
                                 InMemFile_seek(created.val[1], created.m,
                                     SeekFrom("Start",
                                              h.underlying.pointer)).file],
                   [c EXCEPT !.layer = copied(h.underlying, c[h.where],
                                              created.val[1], created.m)],
                   <<>>)

\* CopyOnWriteFile::copy_into_layer: writable is left as it is
copy_into_layer(h, c) ==
    copy_created(h, c, InMemoryBackend_create(c.layer, h.path))

\* self.underlying.write(buf) after the copying step returned r
write_underlying(r, buf) ==
    IF r.res # "Ok" THEN r
    ELSE CowResult("Ok",
                   [r.h EXCEPT !.underlying =
                        InMemFile_write(@, r.c[r.h.where], buf).file],
                   [r.c EXCEPT ![r.h.where] =
                        InMemFile_write(r.h.underlying, @, buf).m],
                   <<Len(buf)>>)

CopyOnWriteFile_write(h, c, buf) ==
    IF ~h.writable THEN write_underlying(copy_into_layer(h, c), buf)
    ELSE write_underlying(CowResult("Ok", h, c, <<>>), buf)

\* flush of the underlying file returns Ok(())
CopyOnWriteFile_flush(h, c) ==
    IF ~h.writable THEN copy_into_layer(h, c)
    ELSE CowResult("Ok", h, c, <<>>)

CopyOnWriteFile_seek(h, c, pos) ==
    CowResult(InMemFile_seek(h.underlying, c[h.where], pos).res,
              [h EXCEPT !.underlying =
                   InMemFile_seek(@, c[h.where], pos).file],
              c,
              InMemFile_seek(h.underlying, c[h.where], pos).val)

(***************************************************************************)
(* The copy-on-write file system as a state machine: vfs is the record of  *)
(* the backend c, the file opened or created last in handle, the backend   *)
(* that answered the open in origin, the backend before the last call and  *)
(* the last call.                                                          *)
(***************************************************************************)
CowPaths == {<<"a">>, <<"d">>, <<"n">>}

CowCall(name, path, res, val) ==
    [name |-> name, path |-> path, res |-> res, val |-> val]

\* FileSystem::new_copy_on_write_fs(fallback)
InitCow ==
    /\ NoDecoder
    /\ NoThread
    /\ NoLoader
    /\ overflow_checks \in BOOLEAN
    /\ vfs = [c |-> CopyOnWriteBackend_new(Populated), handle |-> <<>>,
              origin |-> "none",
              before |-> CopyOnWriteBackend_new(Populated),
              last |-> CowCall("new", <<>>, "Ok", <<>>)]

\* the state after open or create returned r
cow_handle_made(v, name, path, r) ==
    [v EXCEPT !.c = r.m, !.before = v.c,
              !.last = CowCall(name, path, r.res, <<>>),
              !.handle = IF r.res = "Ok" THEN r.val ELSE @,
              !.origin = IF r.res # "Ok" THEN @
                         ELSE IF name = "create" THEN "create"
                         ELSE r.val[1].where]

\* the state after a call on the handle returned r
cow_file_called(v, name, r) ==
    [v EXCEPT !.c = r.c, !.before = v.c,
              !.last = CowCall(name, v.handle[1].path, r.res, r.val),
              !.handle = <<r.h>>]

CowOpen(p) ==
    /\ Running
    /\ vfs' = cow_handle_made(vfs, "open", p, CopyOnWriteBackend_open(vfs.c, p))
    /\ UNCHANGED <<decoder_vars, thread_vars, loader_vars>>

CowCreate(p) ==
    /\ Running
    /\ Len(vfs.c.layer.heap) < MaxFiles
    /\ vfs' = cow_handle_made(vfs, "create", p,
                              CopyOnWriteBackend_create(vfs.c, p))
    /\ UNCHANGED <<decoder_vars, thread_vars, loader_vars>>

CowCreateDir(p) ==
    /\ Running
    /\ vfs' = [vfs EXCEPT !.c = CopyOnWriteBackend_create_dir(vfs.c, p).m,
                          !.before = vfs.c,
                          !.last = CowCall("create_dir", p,
                                       CopyOnWriteBackend_create_dir(vfs.c,
                                                                     p).res,
                                       <<>>)]
    /\ UNCHANGED <<decoder_vars, thread_vars, loader_vars>>

CowWrite(buf) ==
    /\ Running
    /\ vfs.handle # <<>>
    /\ Len(vfs.c.layer.heap) < MaxFiles
    /\ Len(vfs.c[vfs.handle[1].where].heap[vfs.handle[1].underlying.data])
           + Len(buf) <= MaxBytes
    /\ vfs' = cow_file_called(vfs, "write",
                              CopyOnWriteFile_write(vfs.handle[1], vfs.c, buf))
    /\ UNCHANGED <<decoder_vars, thread_vars, loader_vars>>

CowFlush ==
    /\ Running
    /\ vfs.handle # <<>>
    /\ Len(vfs.c.layer.heap) < MaxFiles
    /\ vfs' = cow_file_called(vfs, "flush",
                              CopyOnWriteFile_flush(vfs.handle[1], vfs.c))
    /\ UNCHANGED <<decoder_vars, thread_vars, loader_vars>>

CowSeek(pos) ==
    /\ Running
    /\ vfs.handle # <<>>
    /\ current_pointer(vfs.handle[1].underlying, vfs.c[vfs.handle[1].where],
                       pos) <= MaxBytes + 1
    /\ vfs' = cow_file_called(vfs, "seek",
                              CopyOnWriteFile_seek(vfs.handle[1], vfs.c, pos))
    /\ UNCHANGED <<decoder_vars, thread_vars, loader_vars>>

NextCow ==
    \/ \E p \in CowPaths : CowOpen(p)
    \/ \E p \in CowPaths : CowCreate(p)
    \/ \E p \in CowPaths : CowCreateDir(p)
    \/ \E buf \in Bufs : CowWrite(buf)
    \/ CowFlush
    \/ \E pos \in Seeks : CowSeek(pos)

SpecCow == InitCow /\ [][NextCow]_vars

\* C28: a write or a flush through a handle opened for a path that only
\* the fallback held succeeds, leaves the fallback as it was, and leaves the
\* layer with an entry for the path.
C28_WritesAfterCopy ==
    /\ vfs.handle # <<>>
    /\ vfs.origin = "fallback"
    /\ vfs.last.name \in {"write", "flush"}
    => /\ vfs.last.res = "Ok"
       /\ vfs.c.fallback = vfs.before.fallback
       /\ InMemoryBackend_exists(vfs.c.layer, vfs.handle[1].path)
       /\ vfs.handle[1].where = "layer"

=============================================================================
